---- MODULE Spec2Model ----
(***************************************************************************)
(* Bus tracker: status derivation, action policy, request cache and        *)
(* throttle controller, and the bus state coordinator.                     *)
(*                                                                         *)
(* The module holds several state machines over one variable list:         *)
(*   SpecPure     - the pure derivation functions applied to one record    *)
(*   SpecThrottle - the adaptive polling interval (sheets-cache)           *)
(*   SpecDedup    - deduplicateRequest and the pending table               *)
(*   Spec         - the coordinator, its handlers and the remote store     *)
(*   SpecCalls, SpecPolling, SpecSession - the throttled remote calls, the *)
(*                  poll timer and the tracker session                     *)
(*   SpecMerge, SpecView, SpecConfig - merge, view lists, configuration    *)
(*   SpecLocal, SpecLife, SpecHint - local updates, the monitor view's     *)
(*                  lifecycle, the row-index hint against the day table    *)
(*   SpecPolled   - the coordinator under a running poll timer             *)
(* Each specification leaves the variables of the others unchanged.        *)
(***************************************************************************)
EXTENDS Integers, Sequences, FiniteSets, TLC

VARIABLES
    evaluated,          \* SpecPure: the last record evaluated, with its derived fields
    rateLimitHits,      \* sheets-cache: let rateLimitHits
    lastRateLimitTime,  \* sheets-cache: let lastRateLimitTime
    nowMs,              \* Date.now() as seen by the throttle controller
    pendingRequests,    \* sheets-cache: const pendingRequests (key -> promise)
    requests,           \* the invocations of requestFn made so far, in order
    calls,              \* the calls of deduplicateRequest made so far, in order
    buses,              \* buses.svelte.ts: let buses (the roster)
    config,             \* buses.svelte.ts: let config
    isLoading,          \* buses.svelte.ts: let isLoading
    error,              \* buses.svelte.ts: let error
    lastUpdated,        \* buses.svelte.ts: let lastUpdated
    polling,            \* buses.svelte.ts: pollInterval is set
    actionError,        \* view: let actionError
    view,               \* the mounted view: "none", "monitor" or "admin"
    sheetExistsCache,   \* sheets-cache: sheetExistsCache has today's key
    rowIndexCache,      \* sheets-cache: rowIndexCache entry of today's key
    procs,              \* the asynchronous operations in flight, one record per slot
    event,              \* what the last step did (history, for the properties)
    minute,             \* the wall clock, in minutes
    started,            \* how many top-level operations have been started
    remoteSheet,        \* remote store: today's table exists
    remoteHeader,       \* remote store: today's table has its header row
    remoteRows,         \* remote store: the data rows of today's table
    timers,             \* the interval timers that are set, as [handle, period, requested]
    pollInterval,       \* buses.svelte.ts: handle of the poll timer, or NoTimer
    currentSpreadsheetId, \* buses.svelte.ts: id polling was started for, or Null
    ticks,              \* poll ticks whose refreshBuses has not completed yet
    pollEvent,          \* what the last step of the poller did (history)
    lastCall,           \* the remote call that completed last (history)
    sheetId,            \* +page.svelte: the tracker id of the URL, or Null
    user,               \* auth.svelte.ts: a user is signed in
    sheetExistsKeys,    \* sheets-cache: the trackers with a key in sheetExistsCache
    rowIndexKeys,       \* sheets-cache: the trackers with a key in rowIndexCache
    inFlight,           \* the Loads and Refreshes awaiting their response, as <<kind, id>>
    hitSheets,          \* the trackers whose rejected calls the throttle count holds
    sessionEvent,       \* what the last step of the session did, as <<kind, id>> (history)
    opsStarted,         \* how many Loads and Refreshes the session has started
    merged,             \* the last mergeBusData evaluated: its arguments and its result
    grouped,            \* the last getBusesForView evaluated: the roster and the lists
    configRows,         \* remote store: the rows of the Config sheet below its header
    configEvent,        \* the last call of saveBusConfig or getBusConfig (history)
    localRun,           \* the last updateBusLocally evaluated, applied once and twice
    views,              \* the instances of MonitorView: mounted or not, and where their
                        \* onMount or handleAuthorize is suspended
    accessToken,        \* auth: getAccessToken() returns a token
    tableConfig,        \* remote store: the bus numbers of the Config sheet, in order
    tableRows,          \* remote store: the data rows of a day's table of several buses
    hintCache,          \* sheets-cache: the rowIndexCache entry of that table
    update,             \* the updateBusStatus in flight on that table
    lastWrite           \* the row the last updateBusStatus replaced (history)

pureVars == <<evaluated>>
throttleVars == <<rateLimitHits, lastRateLimitTime, nowMs>>
dedupVars == <<pendingRequests, requests, calls>>
coordVars == <<buses, config, isLoading, error, lastUpdated, polling, actionError,
               view, sheetExistsCache, rowIndexCache, procs, event, minute, started>>
remoteVars == <<remoteSheet, remoteHeader, remoteRows>>
pollVars == <<timers, pollInterval, currentSpreadsheetId, ticks, pollEvent>>
sessionVars == <<sheetId, user, sheetExistsKeys, rowIndexKeys, inFlight, hitSheets,
                 sessionEvent, opsStarted>>
localVars == <<localRun>>
lifeVars == <<views, accessToken>>
hintVars == <<tableConfig, tableRows, hintCache, update, lastWrite>>
moreVars == <<localVars, lifeVars, hintVars>>
fnVars == <<merged, grouped, configRows, configEvent, moreVars>>
vars == <<evaluated, rateLimitHits, lastRateLimitTime, nowMs,
          pendingRequests, requests, calls, coordVars, remoteVars, pollVars, lastCall, sessionVars, fnVars>>

Min(a, b) == IF a <= b THEN a ELSE b
Max(a, b) == IF a >= b THEN a ELSE b

(***************************************************************************)
(* Values.  A time-of-day string 'HH:MM' is the one-element tuple of its   *)
(* minute; the empty string of a time field is the empty tuple.            *)
(***************************************************************************)
MaxMinute == 2

NoTime == <<>>
TimeStr(m) == <<m>>
TimeStrs == {NoTime} \cup {TimeStr(m) : m \in 1..MaxMinute}

\* covered_by is free text: empty, or the number typed for the covering bus
CoverTexts == {"", "B42"}

ViewModes == {"teacher", "monitor", "admin"}

\* BusStatus without bus_number and the last_modified_* audit fields
StatusFields ==
    [covered_by : CoverTexts, is_uncovered : BOOLEAN,
     arrival_time : TimeStrs, departure_time : TimeStrs]

(***************************************************************************)
(* Status derivation engine and action policy engine.                      *)
(***************************************************************************)
\* mutant: departure no longer dominates arrival
deriveBusStatus_arrivalFirst(bus) ==
    IF bus.is_uncovered THEN "uncovered"
    ELSE IF bus.arrival_time # NoTime THEN "arrived"
    ELSE IF bus.departure_time # NoTime THEN "departed"
    ELSE "pending"

deriveBusStatus(bus) ==
    IF bus.is_uncovered THEN "uncovered"
    ELSE IF bus.departure_time # NoTime THEN "departed"
    ELSE IF bus.arrival_time # NoTime THEN "arrived"
    ELSE "pending"

\* mutant: an uncovered bus is filed under done
deriveBusSection_uncoveredDone(status) ==
    IF status = "departed" \/ status = "uncovered" THEN "done"
    ELSE IF status = "arrived" THEN "arrived"
    ELSE "pending"

deriveBusSection(status) ==
    IF status = "departed" THEN "done"
    ELSE IF status = "arrived" THEN "arrived"
    ELSE "pending"

\* mutant: every role may edit
deriveBusActions_teacherEdits(bus, mode) ==
    LET isPending == bus.derivedStatus = "pending"
        isArrived == bus.derivedStatus = "arrived"
        isMonitor == mode = "monitor"
    IN  [canMarkArrived |-> isMonitor /\ isPending /\ bus.covered_by = ""
                              /\ ~bus.is_uncovered,
         canMarkDeparted |-> isMonitor /\ isArrived,
         canMarkCovered |-> isMonitor /\ isPending,
         canMarkUncovered |-> FALSE,
         canEdit |-> TRUE]

\* mutant: the monitor has a no-show button on a pending bus
deriveBusActions_uncoveredButton(bus, mode) ==
    LET isPending == bus.derivedStatus = "pending"
        isArrived == bus.derivedStatus = "arrived"
        isMonitor == mode = "monitor"
    IN  [canMarkArrived |-> isMonitor /\ isPending /\ bus.covered_by = ""
                              /\ ~bus.is_uncovered,
         canMarkDeparted |-> isMonitor /\ isArrived,
         canMarkCovered |-> isMonitor /\ isPending,
         canMarkUncovered |-> isMonitor /\ isPending,
         canEdit |-> mode = "monitor" \/ mode = "admin"]

deriveBusActions(bus, mode) ==
    LET isPending == bus.derivedStatus = "pending"
        isArrived == bus.derivedStatus = "arrived"
        isMonitor == mode = "monitor"
    IN  [canMarkArrived |-> isMonitor /\ isPending /\ bus.covered_by = ""
                              /\ ~bus.is_uncovered,
         canMarkDeparted |-> isMonitor /\ isArrived,
         canMarkCovered |-> isMonitor /\ isPending,
         canMarkUncovered |-> FALSE,
         canEdit |-> mode = "monitor" \/ mode = "admin"]

\* one roster entry as getBusesWithActions hands it to a view
WithDerived(fields) ==
    LET derivedStatus == deriveBusStatus(fields)
    IN  [covered_by |-> fields.covered_by,
         is_uncovered |-> fields.is_uncovered,
         arrival_time |-> fields.arrival_time,
         departure_time |-> fields.departure_time,
         derivedStatus |-> derivedStatus,
         section |-> deriveBusSection(derivedStatus)]

NotEvaluated == [mode |-> "none"]

PureInit == evaluated = NotEvaluated

EvaluateBus(fields, mode) ==
    /\ evaluated' = [mode |-> mode, bus |-> WithDerived(fields),
                     actions |-> deriveBusActions(WithDerived(fields), mode)]
    /\ UNCHANGED <<throttleVars, dedupVars, coordVars, remoteVars, pollVars, lastCall, sessionVars, fnVars>>

PureNext == \E fields \in StatusFields, mode \in ViewModes : EvaluateBus(fields, mode)

(***************************************************************************)
(* Throttle controller.                                                    *)
(***************************************************************************)
RATE_LIMIT_COOLDOWN_MS == 60000
BASE_POLL_INTERVAL_MS == 10000
MAX_POLL_INTERVAL_MS == 60000

MaxHits == 6        \* rejections counted before the model stops adding more
\* the clock is observed in steps of half the cooldown window
ClockStepMs == RATE_LIMIT_COOLDOWN_MS \div 2
MaxClockSteps == 6  \* steps of ClockStepMs the clock may advance

RECURSIVE Pow(_, _)
Pow(b, e) == IF e = 0 THEN 1 ELSE b * Pow(b, e - 1)

\* mutant: the exponent is not clamped and the product is not capped
getRecommendedPollInterval_uncapped(hits) ==
    IF hits = 0 THEN BASE_POLL_INTERVAL_MS
    ELSE BASE_POLL_INTERVAL_MS * Pow(2, hits)

getRecommendedPollInterval(hits) ==
    IF hits = 0 THEN BASE_POLL_INTERVAL_MS
    ELSE LET backoffMultiplier == Pow(2, Min(hits, 4))
         IN  Min(BASE_POLL_INTERVAL_MS * backoffMultiplier, MAX_POLL_INTERVAL_MS)

\* the page is opened long after the epoch: Date.now() - 0 exceeds the cooldown
StartMs == 2 * RATE_LIMIT_COOLDOWN_MS

ThrottleInit ==
    /\ rateLimitHits = 0
    /\ lastRateLimitTime = 0
    /\ nowMs = StartMs

\* mutant: the rejection is counted and the cooldown is not restarted
recordRateLimitHit_keepsTime ==
    /\ rateLimitHits < MaxHits
    /\ rateLimitHits' = rateLimitHits + 1
    /\ UNCHANGED <<lastRateLimitTime, nowMs, pureVars, dedupVars, coordVars, remoteVars, pollVars, lastCall, sessionVars, fnVars>>

recordRateLimitHit ==
    /\ rateLimitHits < MaxHits
    /\ rateLimitHits' = rateLimitHits + 1
    /\ lastRateLimitTime' = nowMs
    /\ UNCHANGED <<nowMs, pureVars, dedupVars, coordVars, remoteVars, pollVars, lastCall, sessionVars, fnVars>>

\* mutant: a successful call never lowers the count
recordSuccessfulCall_keepsCount ==
    /\ rateLimitHits' = rateLimitHits
    /\ UNCHANGED <<lastRateLimitTime, nowMs, pureVars, dedupVars, coordVars, remoteVars, pollVars, lastCall, sessionVars, fnVars>>

recordSuccessfulCall ==
    /\ rateLimitHits' =
          IF nowMs - lastRateLimitTime > RATE_LIMIT_COOLDOWN_MS /\ rateLimitHits > 0
          THEN Max(0, rateLimitHits - 1)
          ELSE rateLimitHits
    /\ UNCHANGED <<lastRateLimitTime, nowMs, pureVars, dedupVars, coordVars, remoteVars, pollVars, lastCall, sessionVars, fnVars>>

resetThrottleState ==
    /\ rateLimitHits' = 0
    /\ lastRateLimitTime' = 0
    /\ UNCHANGED <<nowMs, pureVars, dedupVars, coordVars, remoteVars, pollVars, lastCall, sessionVars, fnVars>>

ClockAdvance ==
    /\ nowMs < StartMs + MaxClockSteps * ClockStepMs
    /\ nowMs' = nowMs + ClockStepMs
    /\ UNCHANGED <<rateLimitHits, lastRateLimitTime, pureVars, dedupVars, coordVars, remoteVars, pollVars, lastCall, sessionVars, fnVars>>

ThrottleNext ==
    \/ recordRateLimitHit
    \/ recordSuccessfulCall
    \/ resetThrottleState
    \/ ClockAdvance

(***************************************************************************)
(* Request deduplication.                                                  *)
(***************************************************************************)
DedupKeys == {"ensureDailySheet", "getBusStatus"}
Outcomes == {"resolved:a", "resolved:b", "rejected"}
MaxCalls == 4       \* calls of deduplicateRequest in one run

NoPromise == 0

DedupInit ==
    /\ pendingRequests = [k \in DedupKeys |-> NoPromise]
    /\ requests = <<>>
    /\ calls = <<>>

InFlight(k) == {i \in DOMAIN requests : requests[i].key = k /\ requests[i].outcome = "pending"}

\* mutant: the key is released on success only (then instead of finally)
Released_onSuccessOnly(k, outcome) == outcome # "rejected"

\* whether the completion of a request with outcome releases key k
Released(k, outcome) == TRUE

\* deduplicateRequest(key, requestFn): the caller receives the promise of a request
DeduplicateRequest(k) ==
    /\ Len(calls) < MaxCalls
    /\ IF pendingRequests[k] # NoPromise
       THEN /\ calls' = Append(calls, [key |-> k, request |-> pendingRequests[k],
                                       inFlightBefore |-> InFlight(k)])
            /\ UNCHANGED <<pendingRequests, requests>>
       ELSE /\ requests' = Append(requests, [key |-> k, outcome |-> "pending"])
            /\ pendingRequests' = [pendingRequests EXCEPT ![k] = Len(requests) + 1]
            /\ calls' = Append(calls, [key |-> k, request |-> Len(requests) + 1,
                                       inFlightBefore |-> InFlight(k)])
    /\ UNCHANGED <<pureVars, throttleVars, coordVars, remoteVars, pollVars, lastCall, sessionVars, fnVars>>

\* requestFn settles; its finally callback deletes the key in the same microtask run
RequestSettles(i, outcome) ==
    /\ requests[i].outcome = "pending"
    /\ requests' = [requests EXCEPT ![i].outcome = outcome]
    /\ pendingRequests' =
          IF Released(requests[i].key, outcome)
          THEN [pendingRequests EXCEPT ![requests[i].key] = NoPromise]
          ELSE pendingRequests
    /\ UNCHANGED <<calls, pureVars, throttleVars, coordVars, remoteVars, pollVars, lastCall, sessionVars, fnVars>>

\* clearAllCaches, as far as the pending table goes
ClearPendingRequests ==
    /\ \E k \in DedupKeys : pendingRequests[k] # NoPromise
    /\ pendingRequests' = [k \in DedupKeys |-> NoPromise]
    /\ UNCHANGED <<requests, calls, pureVars, throttleVars, coordVars, remoteVars, pollVars, lastCall, sessionVars, fnVars>>

DedupNext ==
    \/ \E k \in DedupKeys : DeduplicateRequest(k)
    \/ \E i \in DOMAIN requests, outcome \in Outcomes : RequestSettles(i, outcome)
    \/ ClearPendingRequests

(***************************************************************************)
(* Records of the coordinator and of the remote table.                     *)
(***************************************************************************)
\* the Config sheet: the configured bus numbers, in order
ConfiguredBuses == <<"17">>

Null == "null"      \* null of error and actionError
NoDate == 0         \* null of lastUpdated
NullIndex == -1     \* null of getCachedRowIndex, -1 of findIndex

\* a data row of the daily table, as the cells hold it
RawRow(b, coveredBy, uncoveredCell, arrival, departure) ==
    [bus_number |-> b, covered_by |-> coveredBy, is_uncovered |-> uncoveredCell,
     arrival_time |-> arrival, departure_time |-> departure]

EmptyRow(b) == RawRow(b, "", "FALSE", NoTime, NoTime)

parseStatusRow(row) ==
    [bus_number |-> row.bus_number,
     covered_by |-> row.covered_by,
     is_uncovered |-> (row.is_uncovered = "TRUE"),
     arrival_time |-> row.arrival_time,
     departure_time |-> row.departure_time]

ParseRows(rows) == [i \in 1..Len(rows) |-> parseStatusRow(rows[i])]

\* the cells updateBusStatus writes back for a merged record
StatusToRow(bus) ==
    RawRow(bus.bus_number, bus.covered_by,
           IF bus.is_uncovered THEN "TRUE" ELSE "FALSE",
           bus.arrival_time, bus.departure_time)

\* { ...record, ...updates }
Spread(record, updates) ==
    [f \in DOMAIN record |-> IF f \in DOMAIN updates THEN updates[f] ELSE record[f]]

\* Array.prototype.findIndex on bus_number, 1-based; 0 when there is none
FindBus(list, b) ==
    IF \E i \in 1..Len(list) : list[i].bus_number = b
    THEN CHOOSE i \in 1..Len(list) :
            /\ list[i].bus_number = b
            /\ \A j \in 1..(i - 1) : list[j].bus_number # b
    ELSE 0

RosterEntry(status) ==
    LET derivedStatus == deriveBusStatus(status)
    IN  [bus_number |-> status.bus_number,
         covered_by |-> status.covered_by,
         is_uncovered |-> status.is_uncovered,
         arrival_time |-> status.arrival_time,
         departure_time |-> status.departure_time,
         derivedStatus |-> derivedStatus,
         section |-> deriveBusSection(derivedStatus)]

\* mutant: one roster entry per status row
mergeBusData_byStatus(configData, statusData) ==
    [i \in 1..Len(statusData) |-> RosterEntry(statusData[i])]

mergeBusData(configData, statusData) ==
    [i \in 1..Len(configData) |->
        LET found == FindBus(statusData, configData[i])
        IN  RosterEntry(IF found = 0
                        THEN parseStatusRow(EmptyRow(configData[i]))
                        ELSE statusData[found])]

\* mutant: the update is applied to every bus of the roster
updateBusLocally_everyBus(roster, busNumber, updates) ==
    [i \in 1..Len(roster) |-> RosterEntry(Spread(roster[i], updates))]

\* mutant: the derived fields are kept as they were
updateBusLocally_staleDerived(roster, busNumber, updates) ==
    [i \in 1..Len(roster) |->
        IF roster[i].bus_number = busNumber
        THEN Spread(roster[i], updates)
        ELSE roster[i]]

updateBusLocally(roster, busNumber, updates) ==
    [i \in 1..Len(roster) |->
        IF roster[i].bus_number = busNumber
        THEN RosterEntry(Spread(roster[i], updates))
        ELSE roster[i]]

\* rowIndexCache entry: absent, or the bus numbers in the order last read
NoRowIndex == [has |-> FALSE, order |-> <<>>]

updateRowIndexCache(statuses) ==
    [has |-> TRUE, order |-> [i \in 1..Len(statuses) |-> statuses[i].bus_number]]

\* indexMap[bus] is the 0-based index of the last row read with that number
getCachedRowIndex(cache, b) ==
    IF cache.has /\ \E i \in 1..Len(cache.order) : cache.order[i] = b
    THEN (CHOOSE i \in 1..Len(cache.order) :
             /\ cache.order[i] = b
             /\ \A j \in (i + 1)..Len(cache.order) : cache.order[j] # b) - 1
    ELSE NullIndex

(***************************************************************************)
(* Asynchronous operations.  A slot of procs holds one invocation of a     *)
(* top-level async function (onMount, a poll tick, a click handler) and    *)
(* the calls nested in it: pc is the await it is suspended at, stack the   *)
(* continuations of its callers.  Everything between two awaits on the     *)
(* network runs in one step, as the microtask queue runs it.               *)
(***************************************************************************)
NumProcs == 2       \* async operations that can be in flight together
MaxOps == 3         \* top-level operations started in one run
Procs == 1..NumProcs

\* what a failed request is reported as
FailKinds == {"rate-limited", "network"}

IdleProc ==
    [kind |-> "idle", pc |-> "idle", req |-> "none", resp |-> <<>>, stack |-> <<>>,
     bus |-> "", updates |-> <<>>, local |-> <<>>, optimistic |-> "none",
     failed |-> FALSE, cfg |-> <<>>, ecfg |-> <<>>, existed |-> FALSE,
     rowIndex |-> NullIndex, payload |-> <<>>, joined |-> 0]

EnsBodyPcs == {"ens:info", "ens:add", "ens:config", "ens:rows", "ens:write"}
LoadPcs == {"load:info", "load:batch", "load:config", "load:ensured", "load:gotStatus"}
UpdPcs == {"upd:ensured", "upd:located", "upd:row", "upd:put"}

\* the client-side state a continuation reads and writes
Client ==
    [buses |-> buses, config |-> config, isLoading |-> isLoading, error |-> error,
     lastUpdated |-> lastUpdated, polling |-> polling, actionError |-> actionError,
     sheetExistsCache |-> sheetExistsCache, rowIndexCache |-> rowIndexCache,
     pendingRequests |-> pendingRequests, procs |-> procs, event |-> {}]

Commit(S) ==
    \E T \in {S} :
        /\ buses' = T.buses
        /\ config' = T.config
        /\ isLoading' = T.isLoading
        /\ error' = T.error
        /\ lastUpdated' = T.lastUpdated
        /\ polling' = T.polling
        /\ actionError' = T.actionError
        /\ sheetExistsCache' = T.sheetExistsCache
        /\ rowIndexCache' = T.rowIndexCache
        /\ pendingRequests' = T.pendingRequests
        /\ procs' = T.procs
        /\ event' = T.event

Emit(S, tag, p) == [S EXCEPT !.event = @ \cup {<<tag, p>>}]

Push(S, p, label) == [S EXCEPT !.procs[p].stack = Append(@, label)]

\* fetch(): the request leaves and the caller is suspended at pc
Dispatch(S, p, pc) ==
    Emit([S EXCEPT !.procs[p].pc = pc, !.procs[p].req = "sent", !.procs[p].resp = <<>>],
         "dispatched", p)

\* await of a promise another operation owns
Join(S, p, pc, owner) ==
    [S EXCEPT !.procs[p].pc = pc, !.procs[p].req = "joined", !.procs[p].joined = owner]

\* the top-level function returns
Finish(S, p) == [S EXCEPT !.procs[p] = IdleProc]

RECURSIVE Continue(_, _, _)
RECURSIVE Throw(_, _, _)

\* return value to the caller whose continuation is on top of the stack
Return(S, p, value) ==
    LET st == S.procs[p].stack
    IN  Continue([S EXCEPT !.procs[p].stack = SubSeq(st, 1, Len(st) - 1),
                           !.procs[p].resp = value,
                           !.procs[p].req = "none"],
                 p, st[Len(st)])

\* the promise of deduplicateRequest settles: finally deletes the key, and the
\* callers that joined the promise are handed its outcome
FinishDedup(S, q, key, joinPc, outcome) ==
    LET ps == S.procs
    IN  [S EXCEPT !.pendingRequests[key] = NoPromise,
                  !.procs = [p \in Procs |->
                      IF ps[p].pc = joinPc /\ ps[p].req = "joined" /\ ps[p].joined = q
                      THEN [ps[p] EXCEPT !.req = "settled", !.resp = outcome]
                      ELSE ps[p]]]

Resolved(value) == [ok |-> TRUE, value |-> value, err |-> ""]
Rejected(err) == [ok |-> FALSE, value |-> <<>>, err |-> err]

\* mutant: the existence cache is not consulted
ensureDailySheet_noCache(S, p, ret) ==
    LET S1 == Push(S, p, ret)
        owner == S.pendingRequests["ensureDailySheet"]
    IN  IF owner # NoPromise THEN Join(S1, p, "ens:join", owner)
        ELSE Dispatch([S1 EXCEPT !.pendingRequests["ensureDailySheet"] = p], p, "ens:info")

ensureDailySheet(S, p, ret) ==
    LET S1 == Push(S, p, ret)
        owner == S.pendingRequests["ensureDailySheet"]
    IN  IF S.sheetExistsCache THEN Return(S1, p, <<>>)
        ELSE IF owner # NoPromise THEN Join(S1, p, "ens:join", owner)
        ELSE Dispatch([S1 EXCEPT !.pendingRequests["ensureDailySheet"] = p], p, "ens:info")

\* the rows ensureDailySheet writes: one per configured bus, existing cells kept
RepairRows(cfg, rows) ==
    [i \in 1..Len(cfg) |->
        LET matches == {j \in 1..Len(rows) : rows[j].bus_number = cfg[i]}
        IN  IF matches = {} THEN EmptyRow(cfg[i])
            ELSE LET existing == rows[CHOOSE j \in matches : \A k \in matches : k <= j]
                 IN  RawRow(existing.bus_number, existing.covered_by,
                            IF existing.is_uncovered = "" THEN "FALSE"
                            ELSE existing.is_uncovered,
                            existing.arrival_time, existing.departure_time)]

EnsDone(S, p) ==
    Return(FinishDedup([S EXCEPT !.sheetExistsCache = TRUE], p, "ensureDailySheet",
                       "ens:join", Resolved(<<>>)),
           p, <<>>)

EnsCheck(S, p, existing) ==
    LET cfg == S.procs[p].ecfg
        hasValidHeader == existing.header
        existingBuses ==
            {existing.rows[i].bus_number : i \in 1..Len(existing.rows)} \ {""}
        configBuses == {cfg[i] : i \in 1..Len(cfg)}
        allBusesPresent == configBuses # {} /\ configBuses \subseteq existingBuses
    IN  IF ~hasValidHeader \/ ~allBusesPresent
        THEN Dispatch([S EXCEPT !.procs[p].payload = RepairRows(cfg, existing.rows)],
                      p, "ens:write")
        ELSE EnsDone(S, p)

getBusStatus(S, p, ret) == ensureDailySheet(Push(S, p, ret), p, "gbs:ensured")

GbsEnsured(S, p) ==
    LET owner == S.pendingRequests["getBusStatus"]
    IN  IF owner # NoPromise THEN Join(S, p, "gbs:join", owner)
        ELSE Dispatch([S EXCEPT !.pendingRequests["getBusStatus"] = p], p, "gbs:rows")

GbsRows(S, p) ==
    LET statuses == ParseRows(S.procs[p].resp.rows)
    IN  Return(FinishDedup([S EXCEPT !.rowIndexCache = updateRowIndexCache(statuses)],
                           p, "getBusStatus", "gbs:join", Resolved(statuses)),
               p, statuses)

loadBuses(S, p, ret) ==
    Dispatch(Emit([Push(S, p, ret) EXCEPT !.isLoading = TRUE, !.error = Null],
                  "loadStarted", p),
             p, "load:info")

\* mutant: lastUpdated is stamped in the finally block, on failure too
LoadCatch_stampsDate(S, p, err) ==
    Return(Emit([S EXCEPT !.error = err, !.isLoading = FALSE, !.lastUpdated = minute],
                "loadFailed", p),
           p, <<>>)

LoadCatch(S, p, err) ==
    Return(Emit([S EXCEPT !.error = err, !.isLoading = FALSE], "loadFailed", p),
           p, <<>>)

LoadSucceed(S, p, cfg, statuses) ==
    Return(Emit([S EXCEPT !.buses = mergeBusData(cfg, statuses),
                          !.lastUpdated = minute,
                          !.isLoading = FALSE],
                "loadSucceeded", p),
           p, <<>>)

RefreshSucceed(S, p) ==
    Finish(Emit([S EXCEPT !.buses = mergeBusData(S.config, S.procs[p].resp),
                          !.lastUpdated = minute,
                          !.error = Null],
                "refreshSucceeded", p),
           p)

\* mutant: a failed Refresh empties the roster
RefreshCatch_clearsRoster(S, p, err) ==
    Finish(Emit([S EXCEPT !.error = err, !.buses = <<>>], "refreshFailed", p), p)

RefreshCatch(S, p, err) ==
    Finish(Emit([S EXCEPT !.error = err], "refreshFailed", p), p)

\* mutant: the catch block reports the error and does not reload
HandlerCatch_noReload(S, p, err) ==
    Finish(Emit([S EXCEPT !.actionError = err, !.procs[p].failed = TRUE,
                          !.procs[p].stack = <<>>],
                "writeFailed", p),
           p)

HandlerCatch(S, p, err) ==
    loadBuses(Emit([S EXCEPT !.actionError = err, !.procs[p].failed = TRUE,
                             !.procs[p].stack = <<>>],
                   "writeFailed", p),
              p, "act:reloaded")

ReadRow(S, p, idx) == Dispatch([S EXCEPT !.procs[p].rowIndex = idx], p, "upd:row")

\* mutant: without a hint for the bus the update gives up
UpdEnsured_failsOnMiss(S, p) ==
    LET idx == getCachedRowIndex(S.rowIndexCache, S.procs[p].bus)
    IN  IF idx = NullIndex THEN Throw(S, p, "not-found")
        ELSE ReadRow(S, p, idx)

UpdEnsured(S, p) ==
    LET idx == getCachedRowIndex(S.rowIndexCache, S.procs[p].bus)
    IN  IF idx = NullIndex THEN getBusStatus(S, p, "upd:located")
        ELSE ReadRow(S, p, idx)

UpdLocated(S, p) ==
    LET found == FindBus(S.procs[p].resp, S.procs[p].bus)
    IN  IF found = 0 THEN Throw(S, p, "not-found")
        ELSE ReadRow(Emit(S, "located", p), p, found - 1)

UpdRow(S, p) ==
    LET rows == S.procs[p].resp.rows
    IN  IF Len(rows) = 0 THEN Throw(S, p, "not-found")
        ELSE LET currentBus == parseStatusRow(rows[1])
                 updatedBus == Spread(currentBus, S.procs[p].updates)
             IN  Dispatch([S EXCEPT !.procs[p].payload = StatusToRow(updatedBus)],
                          p, "upd:put")

\* continuation after a nested call has returned
Continue(S, p, label) ==
    LET S1 == [S EXCEPT !.procs[p].pc = label]
    IN  CASE label = "gbs:ensured" -> GbsEnsured(S1, p)
          [] label = "load:ensured" -> getBusStatus(S1, p, "load:gotStatus")
          [] label = "load:gotStatus" ->
                LoadSucceed(S1, p, S1.procs[p].cfg, S1.procs[p].resp)
          [] label = "refresh:got" -> RefreshSucceed(S1, p)
          [] label = "upd:ensured" -> UpdEnsured(S1, p)
          [] label = "upd:located" -> UpdLocated(S1, p)
          [] label = "mount:loaded" -> Finish([S1 EXCEPT !.polling = TRUE], p)
          [] label = "act:reloaded" -> Finish(Emit(S1, "reloaded", p), p)
          [] label = "retry:loaded" -> Finish(S1, p)

\* an exception travels up to the first try block around the suspended call
Throw(S, p, err) ==
    LET pc == S.procs[p].pc
        st == S.procs[p].stack
        Unwound(T) == [T EXCEPT !.procs[p].stack = SubSeq(st, 1, Len(st) - 1),
                                !.procs[p].pc = st[Len(st)]]
    IN  IF pc \in EnsBodyPcs
        THEN Throw(Unwound(FinishDedup(S, p, "ensureDailySheet", "ens:join",
                                       Rejected(err))), p, err)
        ELSE IF pc = "gbs:rows"
        THEN Throw(Unwound(FinishDedup(S, p, "getBusStatus", "gbs:join",
                                       Rejected(err))), p, err)
        ELSE IF pc \in LoadPcs THEN LoadCatch(S, p, err)
        ELSE IF pc \in UpdPcs THEN HandlerCatch(S, p, err)
        ELSE IF pc = "refresh:got" THEN RefreshCatch(S, p, err)
        ELSE Throw(Unwound(S), p, err)

\* continuation after the response of the awaited request has arrived
AfterResponse(S, p) ==
    LET pc == S.procs[p].pc
        resp == S.procs[p].resp
        S0 == [S EXCEPT !.procs[p].req = "none"]
    IN  CASE pc = "load:info" ->
                IF resp.exists
                THEN Dispatch([S0 EXCEPT !.sheetExistsCache = TRUE], p, "load:batch")
                ELSE Dispatch(S0, p, "load:config")
          [] pc = "load:batch" ->
                LET statuses == ParseRows(resp.rows)
                IN  LoadSucceed([S0 EXCEPT !.rowIndexCache = updateRowIndexCache(statuses),
                                           !.config = resp.config],
                                p, resp.config, statuses)
          [] pc = "load:config" ->
                ensureDailySheet([S0 EXCEPT !.config = resp.config,
                                            !.procs[p].cfg = resp.config],
                                 p, "load:ensured")
          [] pc = "ens:info" ->
                IF resp.exists
                THEN Dispatch([S0 EXCEPT !.procs[p].existed = TRUE], p, "ens:config")
                ELSE Dispatch([S0 EXCEPT !.procs[p].existed = FALSE], p, "ens:add")
          [] pc = "ens:add" -> Dispatch(S0, p, "ens:config")
          [] pc = "ens:config" ->
                LET S1 == [S0 EXCEPT !.procs[p].ecfg = resp.config]
                IN  IF S0.procs[p].existed THEN Dispatch(S1, p, "ens:rows")
                    ELSE EnsCheck(S1, p, [header |-> FALSE, rows |-> <<>>])
          [] pc = "ens:rows" -> EnsCheck(S0, p, resp)
          [] pc = "ens:write" -> EnsDone(S0, p)
          [] pc = "gbs:rows" -> GbsRows(S0, p)
          [] pc = "upd:row" -> UpdRow(S0, p)
          [] pc = "upd:put" -> Finish(Emit(S0, "writeSucceeded", p), p)

(***************************************************************************)
(* The coordinator: initial state and steps.                               *)
(***************************************************************************)
CoordInit ==
    /\ buses = <<>>
    /\ config = <<>>
    /\ isLoading = FALSE
    /\ error = Null
    /\ lastUpdated = NoDate
    /\ polling = FALSE
    /\ actionError = Null
    /\ view = "none"
    /\ sheetExistsCache = FALSE
    /\ rowIndexCache = NoRowIndex
    /\ procs = [p \in Procs |-> IdleProc]
    /\ event = {}
    /\ minute = 1
    /\ started = 0

\* the day's table: not created yet, created with only its header, or populated
RemoteInit ==
    \/ remoteSheet = FALSE /\ remoteHeader = FALSE /\ remoteRows = <<>>
    \/ remoteSheet = TRUE /\ remoteHeader = TRUE /\ remoteRows = <<>>
    \/ /\ remoteSheet = TRUE
       /\ remoteHeader = TRUE
       /\ remoteRows = [i \in 1..Len(ConfiguredBuses) |-> EmptyRow(ConfiguredBuses[i])]

otherVars == <<evaluated, rateLimitHits, lastRateLimitTime, nowMs, requests, calls,
               pollVars, lastCall, sessionVars, fnVars>>

\* a new operation takes the first free slot
\* The update callback of startViewTransition is queued on the page's event
\* loop when the handler suspends; it runs before the tasks queued after it
\* (a response, a poll tick, a click).
NoTransitionOwed == \A q \in Procs : procs[q].optimistic # "pending"

FreeSlot(p) ==
    /\ NoTransitionOwed
    /\ started < MaxOps
    /\ started' = started + 1
    /\ procs[p].kind = "idle"
    /\ \A q \in Procs : q < p => procs[q].kind # "idle"

\* onMount of a view: await loadBuses(sheetId); startPolling(sheetId, 10000)
Mount(p, mode) ==
    /\ view = "none"
    /\ FreeSlot(p)
    /\ view' = mode
    /\ Commit(loadBuses([Client EXCEPT !.procs[p].kind = "load"], p, "mount:loaded"))
    /\ UNCHANGED <<minute, remoteVars, otherVars>>

\* the Retry button of the error panel
Retry(p) ==
    /\ view = "admin"
    /\ ~isLoading
    /\ error # Null
    /\ FreeSlot(p)
    /\ Commit(loadBuses([Client EXCEPT !.procs[p].kind = "load"], p, "retry:loaded"))
    /\ UNCHANGED <<view, minute, remoteVars, otherVars>>

\* a tick of the poll timer: refreshBuses(spreadsheetId)
RefreshStart(p) ==
    /\ polling
    /\ FreeSlot(p)
    /\ Commit(getBusStatus([Client EXCEPT !.procs[p].kind = "refresh"], p, "refresh:got"))
    /\ UNCHANGED <<view, minute, remoteVars, otherVars>>

\* the bus list and its buttons are rendered
ListShown == view \in {"monitor", "admin"} /\ ~isLoading /\ error = Null /\ Len(buses) > 0

\* the handler reads the clock first; the service function reads it again and
\* may find the next minute
LaterReads == {m \in {minute, minute + 1} : m <= MaxMinute}

\* try { actionError = null; withViewTransition(() => updateBusLocally(...));
\*       await updateBusStatus(...) }
StartHandler(p, b, local, remote, deferred, later) ==
    /\ FreeSlot(p)
    /\ minute' = later
    /\ LET S1 == [Client EXCEPT
                     !.actionError = Null,
                     !.buses = IF deferred THEN @ ELSE updateBusLocally(@, b, local),
                     !.procs[p] = [IdleProc EXCEPT
                                      !.kind = "action", !.bus = b,
                                      !.updates = remote, !.local = local,
                                      !.optimistic = IF deferred THEN "pending"
                                                     ELSE "applied"]]
       IN  Commit(ensureDailySheet(Emit(S1, "handlerStarted", p), p, "upd:ensured"))
    /\ UNCHANGED <<view, remoteVars, otherVars>>

\* document.startViewTransition, where the browser has it, calls back later;
\* only the monitor view wraps its updates in withViewTransition
Deferrals == IF view = "monitor" THEN BOOLEAN ELSE {FALSE}

handleArrived(p, i) ==
    /\ ListShown
    /\ deriveBusActions(buses[i], view).canMarkArrived
    /\ \E deferred \in Deferrals, later \in LaterReads :
          StartHandler(p, buses[i].bus_number,
                       [arrival_time |-> TimeStr(minute)],
                       [arrival_time |-> TimeStr(later)],
                       deferred, later)

handleDeparted(p, i) ==
    /\ ListShown
    /\ deriveBusActions(buses[i], view).canMarkDeparted
    /\ \E deferred \in Deferrals, later \in LaterReads :
          StartHandler(p, buses[i].bus_number,
                       [departure_time |-> TimeStr(minute)],
                       [departure_time |-> TimeStr(later)],
                       deferred, later)

\* what the keypad of the cover dialog can submit: a number that is not
\* configured, and the number of a configured bus
CoverNumbers == {"B42", "17"}

\* mutant: covering a bus does not record its arrival
handleCoverSelect_keepsPending(p, i, coveringBusNumber) ==
    /\ ListShown
    /\ deriveBusActions(buses[i], view).canMarkCovered
    /\ \E deferred \in Deferrals, later \in LaterReads :
          StartHandler(p, buses[i].bus_number,
                       [covered_by |-> coveringBusNumber],
                       [covered_by |-> coveringBusNumber],
                       deferred, later)

handleCoverSelect(p, i, coveringBusNumber) ==
    /\ ListShown
    /\ deriveBusActions(buses[i], view).canMarkCovered
    /\ \E deferred \in Deferrals, later \in LaterReads :
          StartHandler(p, buses[i].bus_number,
                       [covered_by |-> coveringBusNumber, arrival_time |-> TimeStr(minute)],
                       [covered_by |-> coveringBusNumber, arrival_time |-> TimeStr(later)],
                       deferred, later)

\* what the edit form is saved with: the no-show box toggled, or everything cleared
EditForms(bus) ==
    {[arrival_time |-> bus.arrival_time, departure_time |-> bus.departure_time,
      covered_by |-> bus.covered_by, is_uncovered |-> ~bus.is_uncovered],
     [arrival_time |-> NoTime, departure_time |-> NoTime,
      covered_by |-> "", is_uncovered |-> FALSE]}

handleEditSave(p, i, updates) ==
    /\ ListShown
    /\ deriveBusActions(buses[i], view).canEdit
    /\ updates \in EditForms(buses[i])
    /\ \E deferred \in Deferrals :
          StartHandler(p, buses[i].bus_number, updates, updates, deferred, minute)

\* the update callback of the view transition runs
ApplyViewTransition(p) ==
    /\ procs[p].optimistic = "pending"
    /\ buses' = updateBusLocally(buses, procs[p].bus, procs[p].local)
    /\ procs' = [procs EXCEPT ![p].optimistic = "applied"]
    /\ event' = {<<"transitionApplied", p>>}
    /\ UNCHANGED <<config, isLoading, error, lastUpdated, polling, actionError, view,
                   sheetExistsCache, rowIndexCache, pendingRequests, minute,
                   remoteVars, otherVars, started>>

\* pcs whose request addresses a range of the day's table
TablePcs == {"load:batch", "ens:rows", "ens:write", "gbs:rows", "upd:row", "upd:put"}

\* what the remote store answers to the request of pr
Response(pr) ==
    CASE pr.pc \in {"load:info", "ens:info"} -> [exists |-> remoteSheet]
      [] pr.pc = "load:batch" -> [config |-> ConfiguredBuses, rows |-> remoteRows]
      [] pr.pc \in {"load:config", "ens:config"} -> [config |-> ConfiguredBuses]
      [] pr.pc = "ens:rows" ->
            [header |-> remoteHeader,
             rows |-> SubSeq(remoteRows, 1, Min(Len(pr.ecfg), Len(remoteRows)))]
      [] pr.pc = "gbs:rows" -> [rows |-> remoteRows]
      [] pr.pc = "upd:row" ->
            [rows |-> IF pr.rowIndex + 1 <= Len(remoteRows)
                      THEN <<remoteRows[pr.rowIndex + 1]>> ELSE <<>>]
      [] OTHER -> [done |-> TRUE]

\* the rows of the table after the write of pr has been applied
Written(pr) ==
    CASE pr.pc = "ens:write" ->
            [i \in 1..Max(Len(remoteRows), Len(pr.payload)) |->
                IF i <= Len(pr.payload) THEN pr.payload[i] ELSE remoteRows[i]]
      [] pr.pc = "upd:put" ->
            [i \in 1..Max(Len(remoteRows), pr.rowIndex + 1) |->
                IF i = pr.rowIndex + 1 THEN pr.payload
                ELSE IF i <= Len(remoteRows) THEN remoteRows[i]
                ELSE EmptyRow("")]
      [] OTHER -> remoteRows

\* the remote store handles the request of p
Serve(p) ==
    /\ procs[p].req = "sent"
    /\ procs[p].pc \in TablePcs => remoteSheet
    /\ procs' = [procs EXCEPT ![p].req = "served", ![p].resp = Response(procs[p])]
    /\ remoteSheet' = (remoteSheet \/ procs[p].pc = "ens:add")
    /\ remoteHeader' = (remoteHeader \/ procs[p].pc = "ens:write")
    /\ remoteRows' = Written(procs[p])
    /\ event' = {<<"served", p>>}
    /\ UNCHANGED <<buses, config, isLoading, error, lastUpdated, polling, actionError,
                   view, sheetExistsCache, rowIndexCache, pendingRequests, minute,
                   otherVars, started>>

\* the page of another user runs ensureDailySheet and leaves the day's table
\* with its header and a row for every configured bus
OtherSessionEnsures ==
    /\ \/ ~remoteSheet
       \/ ~remoteHeader
       \/ \E i \in DOMAIN ConfiguredBuses :
             FindBus(remoteRows, ConfiguredBuses[i]) = 0
    /\ remoteSheet' = TRUE
    /\ remoteHeader' = TRUE
    /\ remoteRows' = RepairRows(ConfiguredBuses, remoteRows)
    /\ event' = {}
    /\ UNCHANGED <<buses, config, isLoading, error, lastUpdated, polling, actionError,
                   view, sheetExistsCache, rowIndexCache, pendingRequests, procs,
                   minute, otherVars, started>>

\* the response reaches the page
Deliver(p) ==
    /\ NoTransitionOwed
    /\ procs[p].req = "served"
    /\ Commit(AfterResponse(Emit(Client, "delivered", p), p))
    /\ UNCHANGED <<view, minute, remoteVars, otherVars, started>>

\* the request fails: an error status from the store, or the network fails
\* before or after the store has handled it
Fail(p, kind) ==
    /\ NoTransitionOwed
    /\ \/ procs[p].req = "sent"
       \/ procs[p].req = "served" /\ kind = "network"
    /\ Commit(Throw(Emit([Client EXCEPT !.procs[p].req = "none"], "failed", p), p, kind))
    /\ UNCHANGED <<view, minute, remoteVars, otherVars, started>>

\* a caller that joined a deduplicated promise resumes with its outcome
Resume(p) ==
    /\ NoTransitionOwed
    /\ procs[p].req = "settled"
    /\ LET S0 == Emit([Client EXCEPT !.procs[p].req = "none"], "resumed", p)
       IN  Commit(IF procs[p].resp.ok
                  THEN Return(S0, p, procs[p].resp.value)
                  ELSE Throw(S0, p, procs[p].resp.err))
    /\ UNCHANGED <<view, minute, remoteVars, otherVars, started>>

Next ==
    \/ \E p \in Procs, mode \in {"monitor", "admin"} : Mount(p, mode)
    \/ \E p \in Procs : Retry(p)
    \/ \E p \in Procs : RefreshStart(p)
    \/ \E p \in Procs, i \in DOMAIN buses : handleArrived(p, i)
    \/ \E p \in Procs, i \in DOMAIN buses : handleDeparted(p, i)
    \/ \E p \in Procs, i \in DOMAIN buses, c \in CoverNumbers :
          handleCoverSelect(p, i, c)
    \/ \E p \in Procs, i \in DOMAIN buses, u \in StatusFields : handleEditSave(p, i, u)
    \/ \E p \in Procs : ApplyViewTransition(p)
    \/ \E p \in Procs : Serve(p)
    \/ \E p \in Procs : Deliver(p)
    \/ \E p \in Procs, kind \in FailKinds : Fail(p, kind)
    \/ \E p \in Procs : Resume(p)
    \/ OtherSessionEnsures

(***************************************************************************)
(* Rate-limit tracking of remote calls, and the poll timer.                *)
(***************************************************************************)
\* HTTP status of a completed call: success, rate-limited, another failure
Statuses == {200, 429, 500}

\* the functions of sheets-api that issue a request
RemoteFunctions ==
    {"getSpreadsheetInfo", "getSheetValues", "batchGetValues",
     "updateSheetValues", "addSheet"}

\* updateSheetValues and addSheet call fetch directly
Tracked(fn) == fn \in {"getSpreadsheetInfo", "getSheetValues", "batchGetValues"}

\* rateLimitHits after fetchWithRateLimitTracking has seen the status
HitsAfter(status) ==
    IF status = 429 THEN rateLimitHits + 1
    ELSE IF status = 200
              /\ nowMs - lastRateLimitTime > RATE_LIMIT_COOLDOWN_MS
              /\ rateLimitHits > 0
    THEN Max(0, rateLimitHits - 1)
    ELSE rateLimitHits

\* lastRateLimitTime after fetchWithRateLimitTracking has seen the status
TimeAfter(status) == IF status = 429 THEN nowMs ELSE lastRateLimitTime

NoCall == [fn |-> "none", status |-> 0]

CallsInit == lastCall = NoCall

\* a request of fn completes with the status
RemoteCall(fn, status) ==
    /\ status = 429 => rateLimitHits < MaxHits
    /\ rateLimitHits' = IF Tracked(fn) THEN HitsAfter(status) ELSE rateLimitHits
    /\ lastRateLimitTime' = IF Tracked(fn) THEN TimeAfter(status) ELSE lastRateLimitTime
    /\ lastCall' = [fn |-> fn, status |-> status]
    /\ UNCHANGED <<nowMs, pureVars, dedupVars, coordVars, remoteVars, pollVars, sessionVars, fnVars>>

CallsNext ==
    \/ \E fn \in RemoteFunctions, status \in Statuses : RemoteCall(fn, status)
    \/ ClockAdvance

NoTimer == 0
MaxTimers == 2      \* interval timers that can be set at the same time
MaxTicks == 2       \* poll ticks whose Refresh is in flight together
RequestedIntervals == {BASE_POLL_INTERVAL_MS, 3 * BASE_POLL_INTERVAL_MS}
Handles == 1..MaxTimers

PollInit ==
    /\ timers = {}
    /\ pollInterval = NoTimer
    /\ currentSpreadsheetId = Null
    /\ ticks = <<>>
    /\ pollEvent = "none"

\* the poller after clearInterval(pollInterval), as [timers, pollInterval]
Cleared(set, handle) ==
    [timers |-> {t \in set : t.handle # handle}, pollInterval |-> NoTimer]

\* the poller after startPolling(id, intervalMs): stopPolling(), then setInterval
Started(set, handle, intervalMs, hits) ==
    LET actualInterval == Max(intervalMs, getRecommendedPollInterval(hits))
        stopped == Cleared(set, handle)
        used == {t.handle : t \in stopped.timers}
        h == CHOOSE x \in Handles \ used : \A y \in Handles \ used : x <= y
    IN  [timers |-> stopped.timers \cup {[handle |-> h, period |-> actualInterval,
                                          requested |-> intervalMs]},
         pollInterval |-> h]

startPolling(intervalMs) ==
    /\ Cardinality(timers) < MaxTimers
    /\ LET after == Started(timers, pollInterval, intervalMs, rateLimitHits)
       IN  /\ timers' = after.timers
           /\ pollInterval' = after.pollInterval
    /\ currentSpreadsheetId' = "sheet"
    /\ pollEvent' = "started"
    /\ UNCHANGED <<ticks, lastCall, sessionVars, fnVars, pureVars, throttleVars, dedupVars, coordVars, remoteVars>>

\* mutant: stopPolling forgets to clear currentSpreadsheetId
stopPolling_keepsId ==
    /\ timers' = Cleared(timers, pollInterval).timers
    /\ pollInterval' = NoTimer
    /\ pollEvent' = "stopped"
    /\ UNCHANGED <<currentSpreadsheetId, ticks, lastCall, sessionVars, fnVars, pureVars, throttleVars,
                   dedupVars, coordVars, remoteVars>>

stopPolling ==
    /\ timers' = Cleared(timers, pollInterval).timers
    /\ pollInterval' = NoTimer
    /\ currentSpreadsheetId' = Null
    /\ pollEvent' = "stopped"
    /\ UNCHANGED <<ticks, lastCall, sessionVars, fnVars, pureVars, throttleVars, dedupVars, coordVars, remoteVars>>

\* a timer fires: refreshBuses(spreadsheetId) is called and is pending
PollTick(t) ==
    /\ t \in timers
    /\ Len(ticks) < MaxTicks
    /\ ticks' = Append(ticks, [actualInterval |-> t.period, intervalMs |-> t.requested])
    /\ pollEvent' = "tick"
    /\ UNCHANGED <<timers, pollInterval, currentSpreadsheetId, lastCall, sessionVars, fnVars, pureVars,
                   throttleVars, dedupVars, coordVars, remoteVars>>

\* the status read of a tick completes, refreshBuses resolves and the then
\* callback compares the recommended interval with the one it was set up with
RefreshCompletes(i, status) ==
    /\ i \in DOMAIN ticks
    /\ status = 429 => rateLimitHits < MaxHits
    /\ rateLimitHits' = HitsAfter(status)
    /\ lastRateLimitTime' = TimeAfter(status)
    /\ ticks' = [j \in 1..(Len(ticks) - 1) |-> IF j < i THEN ticks[j] ELSE ticks[j + 1]]
    /\ LET newInterval == getRecommendedPollInterval(HitsAfter(status))
           restart == newInterval # ticks[i].actualInterval /\ currentSpreadsheetId # Null
           after == Started(timers, pollInterval, ticks[i].intervalMs, HitsAfter(status))
       IN  /\ restart => Cardinality(timers) < MaxTimers \/ pollInterval # NoTimer
           /\ timers' = IF restart THEN after.timers ELSE timers
           /\ pollInterval' = IF restart THEN after.pollInterval ELSE pollInterval
    /\ pollEvent' = "completed"
    /\ UNCHANGED <<currentSpreadsheetId, nowMs, lastCall, sessionVars, fnVars, pureVars, dedupVars,
                   coordVars, remoteVars>>

PollNext ==
    \/ \E intervalMs \in RequestedIntervals : startPolling(intervalMs)
    \/ stopPolling
    \/ \E t \in timers : PollTick(t)
    \/ \E i \in DOMAIN ticks, status \in Statuses : RefreshCompletes(i, status)
    \/ ClockAdvance

(***************************************************************************)
(* The session: which tracker the page shows.  The tracker id is the sheet *)
(* parameter of the URL; a view is mounted while a user is signed in and   *)
(* the URL names a tracker.  The module state of buses.svelte.ts and of    *)
(* sheets-cache lives as long as the page does, across client-side         *)
(* navigation.  The caches are keyed by tracker id and date; the date is   *)
(* today's throughout.  Both trackers have today's table, populated; every *)
(* read of a Load or a Refresh goes through fetchWithRateLimitTracking.    *)
(***************************************************************************)
Trackers == {"A", "B"}

\* the Config sheet of each tracker
TrackerConfig(id) == IF id = "A" THEN <<"17">> ELSE <<"42">>

\* the statuses of today's table of each tracker
TrackerStatus(id) ==
    [i \in 1..Len(TrackerConfig(id)) |-> parseStatusRow(EmptyRow(TrackerConfig(id)[i]))]

NoOp == <<"none", Null>>

MaxSessionOps == 3      \* Loads and Refreshes started in a session
MaxRejections == 1      \* the throttle count up to which a session's call is rejected

SessionInit ==
    /\ sheetId = Null
    /\ user = TRUE
    /\ sheetExistsKeys = {}
    /\ rowIndexKeys = {}
    /\ inFlight = {}
    /\ hitSheets = {}
    /\ sessionEvent = NoOp
    /\ opsStarted = 0

\* what the session leaves alone
SessionFrame ==
    UNCHANGED <<pureVars, dedupVars, remoteVars, lastCall, fnVars, polling, actionError, view,
                sheetExistsCache, rowIndexCache, procs, event, minute, started,
                timers, pollInterval, ticks, pollEvent>>

\* an operation that awaits the response of the call `step`
Op(kind, id, step) == [kind |-> kind, id |-> id, step |-> step]

Loading == {op \in inFlight : op.kind = "load"}

\* loadBuses(id) up to its first request
StartLoad(id) ==
    /\ opsStarted < MaxSessionOps
    /\ opsStarted' = opsStarted + 1
    /\ isLoading' = TRUE
    /\ error' = Null
    /\ inFlight' = inFlight \cup {Op("load", id, "info")}
    /\ sessionEvent' = <<"load", id>>

\* the call an operation awaits after `step` has succeeded, "done" after the last
NextCall(kind, step) ==
    CASE kind = "load" /\ step = "info" -> "batch"
      [] kind = "load" /\ step = "batch" -> "done"
      [] kind = "refresh" /\ step = "ens:info" -> "ens:config"
      [] kind = "refresh" /\ step = "ens:config" -> "ens:read"
      [] kind = "refresh" /\ step = "ens:read" -> "rows"
      [] kind = "refresh" /\ step = "rows" -> "done"

\* Open Tracker: goto('/?sheet=id'); the view mounts and onMount calls loadBuses
handleGoToSheet(id) ==
    /\ user
    /\ sheetId = Null
    /\ sheetId' = id
    /\ StartLoad(id)
    /\ UNCHANGED <<user, sheetExistsKeys, rowIndexKeys, hitSheets, buses, config,
                   lastUpdated, currentSpreadsheetId, throttleVars>>
    /\ SessionFrame

\* a tick of the poll timer: refreshBuses(currentSpreadsheetId) up to its first
\* request, which ensureDailySheet makes unless the tracker's table is cached
PollTimerFires ==
    /\ currentSpreadsheetId # Null
    /\ \A op \in inFlight : ~(op.kind = "refresh" /\ op.id = currentSpreadsheetId)
    /\ opsStarted < MaxSessionOps
    /\ opsStarted' = opsStarted + 1
    /\ inFlight' = inFlight \cup
          {Op("refresh", currentSpreadsheetId,
              IF currentSpreadsheetId \in sheetExistsKeys THEN "rows" ELSE "ens:info")}
    /\ sessionEvent' = <<"refresh", currentSpreadsheetId>>
    /\ UNCHANGED <<sheetId, user, sheetExistsKeys, rowIndexKeys, hitSheets, buses, config,
                   isLoading, error, lastUpdated, currentSpreadsheetId, throttleVars>>
    /\ SessionFrame

\* the response to the call an operation awaits, and the operation up to its
\* next request or its end; onMount calls startPolling when loadBuses returns
CallReturns(op, status) ==
    LET next == NextCall(op.kind, op.step)
        ok == status = 200
        ends == ~ok \/ next = "done"
        failure == IF status = 429 THEN "rate-limited" ELSE "network"
    IN  /\ op \in inFlight
        /\ status = 429 => rateLimitHits < MaxRejections
        /\ rateLimitHits' = HitsAfter(status)
        /\ lastRateLimitTime' = TimeAfter(status)
        /\ hitSheets' = IF status = 429 THEN hitSheets \cup {op.id}
                        ELSE IF HitsAfter(status) = 0 THEN {}
                        ELSE hitSheets
        /\ inFlight' = IF ends THEN inFlight \ {op}
                       ELSE (inFlight \ {op}) \cup {Op(op.kind, op.id, next)}
        /\ sheetExistsKeys' = IF ok /\ op.step \in {"info", "ens:read"}
                              THEN sheetExistsKeys \cup {op.id}
                              ELSE sheetExistsKeys
        /\ rowIndexKeys' = IF ok /\ op.step \in {"batch", "rows"}
                           THEN rowIndexKeys \cup {op.id}
                           ELSE rowIndexKeys
        /\ config' = IF ok /\ op.step = "batch" THEN TrackerConfig(op.id) ELSE config
        /\ buses' = IF ok /\ next = "done"
                    THEN mergeBusData(config', TrackerStatus(op.id))
                    ELSE buses
        /\ lastUpdated' = IF ok /\ next = "done" THEN minute ELSE lastUpdated
        /\ error' = IF ~ok THEN failure
                    ELSE IF op.kind = "refresh" /\ next = "done" THEN Null
                    ELSE error
        /\ isLoading' = IF op.kind = "load" /\ ends THEN FALSE ELSE isLoading
        /\ currentSpreadsheetId' = IF op.kind = "load" /\ ends THEN op.id
                                   ELSE currentSpreadsheetId
        /\ sessionEvent' = IF op.kind = "load" /\ ends THEN <<"startPolling", op.id>>
                           ELSE <<"response", op.id>>
        /\ UNCHANGED <<sheetId, user, nowMs, opsStarted>>
        /\ SessionFrame

\* the browser's Back from the tracker to the page without a sheet parameter,
\* once the view has finished mounting; onDestroy of a mounted view calls
\* stopPolling
LeaveTracker ==
    /\ sheetId # Null
    /\ Loading = {}
    /\ sheetId' = Null
    /\ currentSpreadsheetId' = IF user THEN Null ELSE currentSpreadsheetId
    /\ sessionEvent' = <<"left", sheetId>>
    /\ UNCHANGED <<opsStarted, user, sheetExistsKeys, rowIndexKeys, inFlight, hitSheets, buses, config,
                   isLoading, error, lastUpdated, throttleVars>>
    /\ SessionFrame

\* Sign out, once the view has finished mounting: signOut() and resetBusState(),
\* which ends with clearAllCaches()
handleSignOut ==
    /\ user
    /\ Loading = {}
    /\ user' = FALSE
    /\ currentSpreadsheetId' = Null
    /\ buses' = <<>>
    /\ config' = <<>>
    /\ isLoading' = FALSE
    /\ error' = Null
    /\ lastUpdated' = NoDate
    /\ sheetExistsKeys' = {}
    /\ rowIndexKeys' = {}
    /\ rateLimitHits' = 0
    /\ lastRateLimitTime' = 0
    /\ hitSheets' = {}
    /\ sessionEvent' = <<"signedOut", sheetId>>
    /\ UNCHANGED <<sheetId, inFlight, nowMs, opsStarted>>
    /\ SessionFrame

\* a user signs in, picks a role and authorizes; with a tracker in the URL the
\* view calls loadBuses
SignIn ==
    /\ ~user
    /\ user' = TRUE
    /\ IF sheetId # Null
       THEN StartLoad(sheetId)
       ELSE /\ sessionEvent' = <<"signedIn", Null>>
            /\ UNCHANGED <<isLoading, error, inFlight, opsStarted>>
    /\ UNCHANGED <<sheetId, sheetExistsKeys, rowIndexKeys, hitSheets, buses, config,
                   lastUpdated, currentSpreadsheetId, throttleVars>>
    /\ SessionFrame

SessionNext ==
    \/ \E id \in Trackers : handleGoToSheet(id)
    \/ PollTimerFires
    \/ \E op \in inFlight, status \in Statuses : CallReturns(op, status)
    \/ LeaveTracker
    \/ handleSignOut
    \/ SignIn
    \/ ClockAdvance

(***************************************************************************)
(* The merge of configuration and statuses, over several buses.            *)
(***************************************************************************)
MaxConfigLen == 2       \* rows of a configuration given to the merge
MaxStatusRows == 2      \* status rows given to the merge

BusNumbers == {"2", "17", "42"}

\* status rows as parseStatusRow returns them: untouched, arrived, a no-show
\* that was covered late and has left
StatusRowsOf(b) ==
    {[bus_number |-> b, covered_by |-> "", is_uncovered |-> FALSE,
      arrival_time |-> NoTime, departure_time |-> NoTime],
     [bus_number |-> b, covered_by |-> "", is_uncovered |-> FALSE,
      arrival_time |-> TimeStr(1), departure_time |-> NoTime],
     [bus_number |-> b, covered_by |-> "B42", is_uncovered |-> TRUE,
      arrival_time |-> TimeStr(1), departure_time |-> TimeStr(2)]}

StatusRows == UNION {StatusRowsOf(b) : b \in BusNumbers}

SeqsUpTo(S, n) == UNION {[1..k -> S] : k \in 0..n}

NotMerged == [config |-> <<>>, status |-> <<>>, roster |-> <<"none">>]

MergeInit == merged = NotMerged

MergeEval(configData, statusData) ==
    /\ merged' = [config |-> configData, status |-> statusData,
                  roster |-> mergeBusData(configData, statusData)]
    /\ UNCHANGED <<grouped, configRows, configEvent, moreVars>>
    /\ UNCHANGED <<pureVars, throttleVars, dedupVars, coordVars, remoteVars, pollVars,
                   lastCall, sessionVars>>

\* the merge is evaluated once, on arguments drawn from the bounded sets
MergeNext ==
    /\ merged = NotMerged
    /\ \E configData \in SeqsUpTo(BusNumbers, MaxConfigLen),
          statusData \in SeqsUpTo(StatusRows, MaxStatusRows) :
           MergeEval(configData, statusData)

(***************************************************************************)
(* The grouped view: getBusesForView.                                      *)
(***************************************************************************)
MaxRosterLen == 3       \* rows of the configuration behind a grouped roster

\* the characters of a bus number; the numbers here are digits only
Digits(b) ==
    CASE b = "2" -> <<2>>
      [] b = "17" -> <<1, 7>>
      [] b = "42" -> <<4, 2>>

\* the number a run of digits stands for
RECURSIVE NumberOf(_)
NumberOf(ds) ==
    IF ds = <<>> THEN 0
    ELSE 10 * NumberOf(SubSeq(ds, 1, Len(ds) - 1)) + ds[Len(ds)]

Sign(n) == IF n < 0 THEN -1 ELSE IF n > 0 THEN 1 ELSE 0

\* mutant: the digits are compared one by one, as characters
RECURSIVE localeCompare_plain(_, _)
localeCompare_plain(x, y) ==
    IF x = <<>> /\ y = <<>> THEN 0
    ELSE IF x = <<>> THEN -1
    ELSE IF y = <<>> THEN 1
    ELSE IF x[1] # y[1] THEN Sign(x[1] - y[1])
    ELSE localeCompare_plain(Tail(x), Tail(y))

\* a.localeCompare(b, undefined, {numeric: true}) on the characters of two
\* numbers: a run of digits is compared by its value
localeCompare(x, y) == Sign(NumberOf(x) - NumberOf(y))

sortFn(a, b) == localeCompare(Digits(a.bus_number), Digits(b.bus_number))

\* the comparator of the pending list
pendingSort(a, b) ==
    IF a.is_uncovered /\ ~b.is_uncovered THEN -1
    ELSE IF ~a.is_uncovered /\ b.is_uncovered THEN 1
    ELSE sortFn(a, b)

\* Array.prototype.sort is stable: the place of list[i] is the number of
\* elements the comparator puts before it, and of equals that precede it
SortedBy(list, cmp(_, _)) ==
    LET place(i) ==
            1 + Cardinality({j \in 1..Len(list) :
                                \/ cmp(list[j], list[i]) < 0
                                \/ cmp(list[j], list[i]) = 0 /\ j < i})
    IN  [r \in 1..Len(list) |-> list[CHOOSE i \in 1..Len(list) : place(i) = r]]

\* {...bus, actions: deriveBusActions(bus, mode)}
WithActions(bus, mode) ==
    [bus_number |-> bus.bus_number,
     covered_by |-> bus.covered_by,
     is_uncovered |-> bus.is_uncovered,
     arrival_time |-> bus.arrival_time,
     departure_time |-> bus.departure_time,
     derivedStatus |-> bus.derivedStatus,
     section |-> bus.section,
     actions |-> deriveBusActions(bus, mode)]

getBusesForView(roster, mode) ==
    LET all == [i \in 1..Len(roster) |-> WithActions(roster[i], mode)]
        done == SelectSeq(all, LAMBDA bus : bus.section = "done")
        arrived == SelectSeq(all, LAMBDA bus : bus.section = "arrived")
        pending == SelectSeq(all, LAMBDA bus : bus.section \notin {"done", "arrived"})
    IN  [pending |-> SortedBy(pending, pendingSort),
         arrived |-> SortedBy(arrived, sortFn),
         done |-> SortedBy(done, sortFn)]

\* the status row of a bus that has left
DepartedRow(b) ==
    [bus_number |-> b, covered_by |-> "", is_uncovered |-> FALSE,
     arrival_time |-> TimeStr(1), departure_time |-> TimeStr(2)]

\* the status rows a roster is merged from: one per bus number
StatusTables ==
    {statusOf \in [BusNumbers -> StatusRows \cup {DepartedRow(b) : b \in BusNumbers}] :
        \A b \in BusNumbers : statusOf[b].bus_number = b}

NotGrouped == [mode |-> "none"]

ViewInit == grouped = NotGrouped

\* the view renders the roster a Load has merged
RenderView(configData, statusOf, mode) ==
    LET statusData == [i \in 1..Len(configData) |-> statusOf[configData[i]]]
        roster == mergeBusData(configData, statusData)
    IN  /\ grouped' = [mode |-> mode, roster |-> roster,
                       lists |-> getBusesForView(roster, mode)]
        /\ UNCHANGED <<merged, configRows, configEvent, moreVars>>
        /\ UNCHANGED <<pureVars, throttleVars, dedupVars, coordVars, remoteVars, pollVars,
                       lastCall, sessionVars>>

\* one roster is rendered, drawn from the bounded sets
ViewNext ==
    /\ grouped = NotGrouped
    /\ \E configData \in SeqsUpTo(BusNumbers, MaxRosterLen),
          statusOf \in StatusTables,
          mode \in ViewModes :
           RenderView(configData, statusOf, mode)

(***************************************************************************)
(* The configuration in the remote store: the Config sheet.  A write to a  *)
(* range sets the cells of that range and no others.                       *)
(***************************************************************************)
\* early_dismissal_overrides: left out, empty, or one date with its time
Absent == [given |-> FALSE, map |-> {}]
Overrides(map) == [given |-> TRUE, map |-> map]
OverrideMaps == {Absent, Overrides({}), Overrides({<<"2026-06-12", TimeStr(2)>>})}

BusConfigs ==
    [bus_number : {"17", "42"}, expected_arrival_time : {TimeStr(1)},
     early_dismissal_overrides : OverrideMaps]

\* the cell saveBusConfig writes for the overrides, as the tuple of the mapping
\* its JSON text stands for; the empty tuple is the empty string, written when
\* there are no overrides
OverridesCell(overrides) ==
    IF ~overrides.given \/ overrides.map = {} THEN <<>> ELSE <<overrides.map>>

\* row[2] ? JSON.parse(row[2]) : {}
ParseOverrides(cell) == IF cell = <<>> THEN Overrides({}) ELSE Overrides(cell[1])

ConfigRow(c) ==
    <<c.bus_number, c.expected_arrival_time, OverridesCell(c.early_dismissal_overrides)>>

ParseConfigRow(row) ==
    [bus_number |-> row[1], expected_arrival_time |-> row[2],
     early_dismissal_overrides |-> ParseOverrides(row[3])]

NoConfigCall == [op |-> "none", saved |-> <<>>, got |-> <<>>]

ConfigInit ==
    /\ configRows = <<>>
    /\ configEvent = NoConfigCall

ConfigFrame ==
    /\ UNCHANGED <<merged, grouped, moreVars>>
    /\ UNCHANGED <<pureVars, throttleVars, dedupVars, coordVars, remoteVars, pollVars,
                   lastCall, sessionVars>>

\* updateSheetValues(id, 'Config!A1:C' + (config.length + 1), [header, ...rows])
saveBusConfig(configList) ==
    /\ configRows' =
          [i \in 1..Max(Len(configRows), Len(configList)) |->
              IF i <= Len(configList) THEN ConfigRow(configList[i]) ELSE configRows[i]]
    /\ configEvent' = [op |-> "save", saved |-> configList, got |-> <<>>]
    /\ ConfigFrame

\* getSheetValues(id, 'Config!A2:C100') and the map over its rows
getBusConfig ==
    /\ configEvent.op = "save"
    /\ configEvent' =
          [op |-> "get", saved |-> configEvent.saved,
           got |-> [i \in 1..Len(configRows) |-> ParseConfigRow(configRows[i])]]
    /\ UNCHANGED configRows
    /\ ConfigFrame

ConfigNext ==
    \/ \E configList \in SeqsUpTo(BusConfigs, MaxConfigLen) : saveBusConfig(configList)
    \/ getBusConfig

(***************************************************************************)
(* updateBusLocally on a roster of several buses.                          *)
(***************************************************************************)
\* frame of the specifications below: everything the earlier ones own
EarlierVars ==
    <<pureVars, throttleVars, dedupVars, coordVars, remoteVars, pollVars, lastCall,
      sessionVars, merged, grouped, configRows, configEvent>>

\* the partial updates the handlers pass: an arrival, a departure, a cover,
\* and the two forms of the edit dialog
LocalUpdates ==
    {[arrival_time |-> TimeStr(1)],
     [departure_time |-> TimeStr(2)],
     [covered_by |-> "B42", arrival_time |-> TimeStr(1)],
     [arrival_time |-> NoTime, departure_time |-> NoTime,
      covered_by |-> "", is_uncovered |-> TRUE],
     [arrival_time |-> NoTime, departure_time |-> NoTime,
      covered_by |-> "", is_uncovered |-> FALSE]}

NotRun == [bus |-> "none"]

LocalInit == localRun = NotRun

\* updateBusLocally(busNumber, updates), and the same call once more
UpdateLocallyTwice(roster, busNumber, updates) ==
    LET once == updateBusLocally(roster, busNumber, updates)
    IN  /\ localRun' = [bus |-> busNumber, updates |-> updates, roster |-> roster,
                        once |-> once,
                        twice |-> updateBusLocally(once, busNumber, updates)]
        /\ UNCHANGED <<EarlierVars, lifeVars, hintVars>>

\* one roster a Load has merged is updated, drawn from the bounded sets
LocalNext ==
    /\ localRun = NotRun
    /\ \E configData \in SeqsUpTo(BusNumbers, MaxConfigLen),
          statusOf \in StatusTables,
          busNumber \in BusNumbers,
          updates \in LocalUpdates :
           UpdateLocallyTwice(
               mergeBusData(configData,
                            [i \in 1..Len(configData) |-> statusOf[configData[i]]]),
               busNumber, updates)

(***************************************************************************)
(* The life of a view and the poll timer.  The page mounts one view at a   *)
(* time; a view that is destroyed (navigation, sign-out) may leave the     *)
(* async function of its onMount or of its Authorize button suspended.     *)
(***************************************************************************)
MaxViews == 2       \* view instances mounted one after the other
ViewIds == 1..MaxViews

\* where the async code of a view instance stands
\*   "new"         not mounted yet
\*   "needsAuth"   onMount returned without a token
\*   "authWait"    handleAuthorize sleeps in its loop
\*   "loading"     onMount awaits loadBuses
\*   "authLoading" handleAuthorize awaits loadBuses
\*   "done"        nothing is suspended
NewView == [alive |-> FALSE, pc |-> "new"]

LifeInit ==
    /\ views = [v \in ViewIds |-> NewView]
    /\ accessToken = FALSE

LifeFrame ==
    UNCHANGED <<pureVars, throttleVars, dedupVars, coordVars, remoteVars, lastCall,
                sessionVars, merged, grouped, configRows, configEvent, localVars,
                hintVars, ticks>>

PollerUnchanged == UNCHANGED <<timers, pollInterval, currentSpreadsheetId>>

\* startPolling(sheetId, 10000) as a step of a view's continuation
ViewStartsPolling ==
    LET after == Started(timers, pollInterval, BASE_POLL_INTERVAL_MS, rateLimitHits)
    IN  /\ timers' = after.timers
        /\ pollInterval' = after.pollInterval
        /\ currentSpreadsheetId' = "sheet"

\* the page renders the view: onMount runs up to its first await
onMount(v) ==
    /\ views[v].pc = "new"
    /\ \A w \in ViewIds : ~views[w].alive
    /\ \A w \in ViewIds : w < v => views[w].pc # "new"
    /\ views' = [views EXCEPT ![v] = [alive |-> TRUE,
                                      pc |-> IF accessToken THEN "loading"
                                             ELSE "needsAuth"]]
    /\ pollEvent' = "mounted"
    /\ PollerUnchanged
    /\ UNCHANGED accessToken
    /\ LifeFrame

\* loadBuses resolves (it catches its errors); the line after the await runs
LoadReturns(v) ==
    /\ views[v].pc \in {"loading", "authLoading"}
    /\ views' = [views EXCEPT ![v].pc = "done"]
    /\ ViewStartsPolling
    /\ pollEvent' = "started"
    /\ UNCHANGED accessToken
    /\ LifeFrame

\* the Authorize button: requestAccessToken(), then the first sleep of the loop
handleAuthorize(v) ==
    /\ views[v].alive
    /\ views[v].pc = "needsAuth"
    /\ views' = [views EXCEPT ![v].pc = "authWait"]
    /\ pollEvent' = "authorizing"
    /\ PollerUnchanged
    /\ UNCHANGED accessToken
    /\ LifeFrame

\* the user grants access in the consent window
TokenGranted ==
    /\ ~accessToken
    /\ \E v \in ViewIds : views[v].pc = "authWait"
    /\ accessToken' = TRUE
    /\ pollEvent' = "granted"
    /\ PollerUnchanged
    /\ UNCHANGED views
    /\ LifeFrame

\* the loop of handleAuthorize ends: with a token it goes on to loadBuses,
\* after 30 seconds without one it gives up
AuthWaitEnds(v) ==
    /\ views[v].pc = "authWait"
    /\ views' = [views EXCEPT ![v].pc = IF accessToken THEN "authLoading"
                                        ELSE "needsAuth"]
    /\ pollEvent' = "waited"
    /\ PollerUnchanged
    /\ UNCHANGED accessToken
    /\ LifeFrame

\* the page removes the view: onDestroy calls stopPolling()
onDestroy(v) ==
    /\ views[v].alive
    /\ views' = [views EXCEPT ![v].alive = FALSE]
    /\ timers' = Cleared(timers, pollInterval).timers
    /\ pollInterval' = NoTimer
    /\ currentSpreadsheetId' = Null
    /\ pollEvent' = "destroyed"
    /\ UNCHANGED accessToken
    /\ LifeFrame

LifeNext ==
    \/ \E v \in ViewIds : onMount(v)
    \/ \E v \in ViewIds : LoadReturns(v)
    \/ \E v \in ViewIds : handleAuthorize(v)
    \/ TokenGranted
    \/ \E v \in ViewIds : AuthWaitEnds(v)
    \/ \E v \in ViewIds : onDestroy(v)

(***************************************************************************)
(* The row index hint on a table of several buses.  The session has the    *)
(* day's table in its existence cache; the configuration is edited and the *)
(* table is repaired from other sessions in the meantime.                  *)
(***************************************************************************)
HintBuses == {"2", "17"}

\* the lists an admin saves: the buses in either order, or fewer
SavedLists ==
    {list \in SeqsUpTo(HintBuses, Cardinality(HintBuses)) :
        \A i, j \in DOMAIN list : i # j => list[i] # list[j]}

HintUpdates == {[arrival_time |-> TimeStr(1)], [departure_time |-> TimeStr(2)]}

NoUpdate == [pc |-> "idle", bus |-> "", updates |-> <<>>, rowIndex |-> NullIndex,
             payload |-> <<>>]
NoWrite == [bus |-> "none", replaced |-> "none"]

HintInit ==
    /\ tableConfig = <<"17">>
    /\ tableRows = <<EmptyRow("17")>>
    /\ hintCache = NoRowIndex
    /\ update = NoUpdate
    /\ lastWrite = NoWrite

HintFrame == UNCHANGED <<EarlierVars, localVars, lifeVars>>

\* values written to the range that starts at the first row: the cells below
\* the range keep what they hold
WriteFromTop(old, new) ==
    [i \in 1..Max(Len(old), Len(new)) |-> IF i <= Len(new) THEN new[i] ELSE old[i]]

\* getBusStatus of a Load or a Refresh of the session
FullRead ==
    /\ update.pc = "idle"
    /\ hintCache' = updateRowIndexCache(ParseRows(tableRows))
    /\ UNCHANGED <<tableConfig, tableRows, update, lastWrite>>
    /\ HintFrame

\* an admin saves the bus list: saveBusConfig
AdminSavesConfig(list) ==
    /\ tableConfig' = WriteFromTop(tableConfig, list)
    /\ UNCHANGED <<tableRows, hintCache, update, lastWrite>>
    /\ HintFrame

\* ensureDailySheet of another session finds a configured bus without a row
\* and writes one row per configured bus from the top of the table
OtherSessionRepairs ==
    LET existing == SubSeq(tableRows, 1, Min(Len(tableConfig), Len(tableRows)))
    IN  /\ \E i \in DOMAIN tableConfig : FindBus(existing, tableConfig[i]) = 0
        /\ tableRows' = WriteFromTop(tableRows, RepairRows(tableConfig, existing))
        /\ UNCHANGED <<tableConfig, hintCache, update, lastWrite>>
        /\ HintFrame

\* updateBusStatus(id, busNumber, updates, email) up to the read of the row:
\* the hint of the cache, or on a miss getBusStatus and findIndex
updateBusStatus(busNumber, updates) ==
    LET idx == getCachedRowIndex(hintCache, busNumber)
        statuses == ParseRows(tableRows)
        found == FindBus(statuses, busNumber)
    IN  /\ update.pc = "idle"
        /\ hintCache.has
        /\ IF idx # NullIndex
           THEN /\ update' = [NoUpdate EXCEPT !.pc = "row", !.bus = busNumber,
                                              !.updates = updates, !.rowIndex = idx]
                /\ UNCHANGED hintCache
           ELSE /\ hintCache' = updateRowIndexCache(statuses)
                /\ update' = IF found = 0 THEN NoUpdate
                             ELSE [NoUpdate EXCEPT !.pc = "row", !.bus = busNumber,
                                                   !.updates = updates,
                                                   !.rowIndex = found - 1]
        /\ UNCHANGED <<tableConfig, tableRows, lastWrite>>
        /\ HintFrame

\* the row at the index is read and merged with the updates
UpdateReadsRow ==
    /\ update.pc = "row"
    /\ update' = IF update.rowIndex + 1 > Len(tableRows) THEN NoUpdate
                 ELSE [update EXCEPT
                          !.pc = "put",
                          !.payload = StatusToRow(
                              Spread(parseStatusRow(tableRows[update.rowIndex + 1]),
                                     update.updates))]
    /\ UNCHANGED <<tableConfig, tableRows, hintCache, lastWrite>>
    /\ HintFrame

\* the merged row is written back at the index
UpdateWritesRow ==
    /\ update.pc = "put"
    /\ tableRows' = [i \in 1..Max(Len(tableRows), update.rowIndex + 1) |->
                        IF i = update.rowIndex + 1 THEN update.payload
                        ELSE IF i <= Len(tableRows) THEN tableRows[i]
                        ELSE EmptyRow("")]
    /\ lastWrite' = [bus |-> update.bus,
                     replaced |-> IF update.rowIndex + 1 <= Len(tableRows)
                                  THEN tableRows[update.rowIndex + 1].bus_number
                                  ELSE ""]
    /\ update' = NoUpdate
    /\ UNCHANGED <<tableConfig, hintCache>>
    /\ HintFrame

HintNext ==
    \/ FullRead
    \/ \E list \in SavedLists : AdminSavesConfig(list)
    \/ OtherSessionRepairs
    \/ \E busNumber \in HintBuses, updates \in HintUpdates :
          updateBusStatus(busNumber, updates)
    \/ UpdateReadsRow
    \/ UpdateWritesRow

(***************************************************************************)
(* The coordinator under a poll timer that keeps firing.  The timer is not *)
(* counted among the operations a run may start: as long as polling is on  *)
(* and a slot is free, a tick can start a Refresh.                         *)
(***************************************************************************)
\* a tick of the poll timer: refreshBuses(spreadsheetId)
PollTimerTick(p) ==
    /\ polling
    /\ NoTransitionOwed
    /\ procs[p].kind = "idle"
    /\ \A q \in Procs : q < p => procs[q].kind # "idle"
    /\ Commit(getBusStatus(Emit([Client EXCEPT !.procs[p].kind = "refresh"], "tick", p),
                            p, "refresh:got"))
    /\ UNCHANGED <<view, minute, remoteVars, otherVars, started>>

PolledNext ==
    \/ \E p \in Procs : Mount(p, "monitor")
    \/ \E p \in Procs : PollTimerTick(p)
    \/ \E p \in Procs, i \in DOMAIN buses : handleArrived(p, i)
    \/ \E p \in Procs, i \in DOMAIN buses : handleDeparted(p, i)
    \/ \E p \in Procs : ApplyViewTransition(p)
    \/ \E p \in Procs : Serve(p)
    \/ \E p \in Procs : Deliver(p)
    \/ \E p \in Procs, kind \in FailKinds : Fail(p, kind)
    \/ \E p \in Procs : Resume(p)
    \/ OtherSessionEnsures

\* what happens without the user: the timer fires, the store answers a
\* request, an answer or a settled promise is handled, a view transition runs
Progress ==
    \E p \in Procs :
        \/ PollTimerTick(p)
        \/ Serve(p)
        \/ Deliver(p)
        \/ Resume(p)
        \/ ApplyViewTransition(p)

(***************************************************************************)
(* Specifications.                                                         *)
(***************************************************************************)
Init ==
    /\ PureInit /\ ThrottleInit /\ DedupInit /\ CoordInit /\ RemoteInit
    /\ CallsInit /\ PollInit /\ SessionInit
    /\ MergeInit /\ ViewInit /\ ConfigInit
    /\ LocalInit /\ LifeInit /\ HintInit

SpecPure == Init /\ [][PureNext]_vars
SpecThrottle == Init /\ [][ThrottleNext]_vars
\* calls keep being made: a successful call that would lower the count is not
\* put off for ever
SpecThrottleLive == SpecThrottle /\ WF_vars(recordSuccessfulCall)
SpecDedup == Init /\ [][DedupNext]_vars
Spec == Init /\ [][Next]_vars
SpecCalls == Init /\ [][CallsNext]_vars
SpecPolling == Init /\ [][PollNext]_vars
SpecSession == Init /\ [][SessionNext]_vars
SpecMerge == Init /\ [][MergeNext]_vars
SpecView == Init /\ [][ViewNext]_vars
SpecConfig == Init /\ [][ConfigNext]_vars
SpecLocal == Init /\ [][LocalNext]_vars
SpecLife == Init /\ [][LifeNext]_vars
SpecHint == Init /\ [][HintNext]_vars
SpecPolled == Init /\ [][PolledNext]_vars /\ WF_vars(Progress)

C10_IntervalFormula ==
    LET interval == getRecommendedPollInterval(rateLimitHits)
    IN  /\ rateLimitHits >= 0
        /\ rateLimitHits = 0 => interval = 10000
        /\ rateLimitHits = 1 => interval = 20000
        /\ rateLimitHits = 2 => interval = 40000
        /\ rateLimitHits >= 3 => interval = 60000
        /\ interval >= BASE_POLL_INTERVAL_MS
        /\ interval <= MAX_POLL_INTERVAL_MS

\* more rejections than the clamp of the exponent have accumulated
C10_Witness ==
    /\ rateLimitHits > 4
    /\ getRecommendedPollInterval(rateLimitHits) = MAX_POLL_INTERVAL_MS

(***************************************************************************)
(* C8: a second call with key K that arrives while a first call with key K *)
(* is still in flight does not invoke the operation again: both callers    *)
(* hold the same request and so receive the same outcome.                  *)
(***************************************************************************)
C8_SecondCallShares ==
    \A c1, c2 \in DOMAIN calls :
        (c1 < c2 /\ calls[c1].key = calls[c2].key
           /\ calls[c1].request \in calls[c2].inFlightBefore)
        => calls[c2].request = calls[c1].request

(***************************************************************************)
(* C9: when a deduplicated operation completes, with success or failure,   *)
(* its key leaves the pending table, and the next call with that key       *)
(* invokes the operation afresh instead of receiving the old outcome.      *)
(***************************************************************************)
C9_KeyReleased ==
    [][ /\ \A i \in DOMAIN requests :
              (requests[i].outcome = "pending" /\ requests'[i].outcome # "pending")
              => pendingRequests'[requests[i].key] = NoPromise
        /\ Len(calls') = Len(calls) + 1 =>
              LET c == calls'[Len(calls')]
              IN  InFlight(c.key) = {} =>
                     /\ Len(requests') = Len(requests) + 1
                     /\ c.request = Len(requests')
                     /\ requests'[c.request].outcome = "pending"
      ]_vars

\* a request failed, and a later call with the same key has started a new one
C9_Witness ==
    \E i, j \in DOMAIN requests, c \in DOMAIN calls :
        /\ i < j
        /\ requests[i].key = requests[j].key
        /\ requests[i].outcome = "rejected"
        /\ requests[j].outcome = "pending"
        /\ calls[c].request = j
        /\ pendingRequests[requests[j].key] = j

(***************************************************************************)
(* Properties of the coordinator.                                          *)
(***************************************************************************)
\* the roster shows the values the handler of pr put in its optimistic update,
\* with the status derived from them
Holds(roster, pr) ==
    LET i == FindBus(roster, pr.bus)
    IN  /\ i # 0
        /\ \A f \in DOMAIN pr.local : roster[i][f] = pr.local[f]
        /\ roster[i].derivedStatus = deriveBusStatus(roster[i])

\* the last step ran code of operation p on the page
StepOf(p) == \E tag \in {"delivered", "failed", "resumed"} : <<tag, p>> \in event

\* pr is inside loadBuses, or inside a call loadBuses awaits
InLoad(pr) == pr.pc \in LoadPcs \/ \E i \in DOMAIN pr.stack : pr.stack[i] \in LoadPcs

\* the statuses the read that ends a Load has returned
Loaded(pr) == IF pr.pc = "gbs:join" THEN pr.resp.value ELSE ParseRows(pr.resp.rows)

\* C2: when a mutating handler dispatches its first remote request, the roster
\* already holds the new field values and the status derived from them.
C2_OptimisticBeforeDispatch ==
    [][\A p \in Procs :
          (<<"handlerStarted", p>> \in event' /\ <<"dispatched", p>> \in event')
          => Holds(buses', procs'[p])]_vars

\* C3: once an optimistic update is in the roster, a Refresh that completes
\* while the write is still under way does not take its values out again.
C3_RefreshKeepsOptimistic ==
    [][\A p \in Procs, q \in Procs :
          (/\ <<"refreshSucceeded", q>> \in event'
           /\ procs[p].kind = "action"
           /\ procs[p].optimistic = "applied"
           /\ ~procs[p].failed
           /\ Holds(buses, procs[p]))
          => Holds(buses', procs[p])]_vars

\* C4: a failed write sets the action's error message and starts a Load in the
\* same step; when that Load succeeds the roster is the merge of the statuses the
\* store has returned; the operation issues no further request of the write.
C4_FailedWriteReloads ==
    [][\A p \in Procs :
          /\ <<"writeFailed", p>> \in event' =>
                /\ actionError' # Null
                /\ <<"loadStarted", p>> \in event'
                /\ isLoading'
                /\ procs'[p].pc = "load:info" /\ procs'[p].req = "sent"
          /\ (procs[p].failed /\ <<"loadSucceeded", p>> \in event') =>
                buses' = mergeBusData(config', Loaded(procs[p]))
          /\ procs[p].failed => procs'[p].pc \notin UpdPcs]_vars

\* a corrective Load has just succeeded: the action's error is shown and the
\* roster is what the store holds
C4_Witness ==
    \E p \in Procs :
        /\ <<"reloaded", p>> \in event
        /\ <<"loadSucceeded", p>> \in event
        /\ actionError # Null
        /\ error = Null
        /\ Len(buses) > 0
        /\ buses = mergeBusData(config, ParseRows(remoteRows))

\* C5: the cells a successful write has stored for the changed fields are the
\* values the optimistic update put in the roster.
C5_StoredEqualsOptimistic ==
    [][\A p \in Procs :
          <<"writeSucceeded", p>> \in event' =>
              \A f \in DOMAIN procs[p].local :
                  parseStatusRow(procs[p].payload)[f] = procs[p].local[f]]_vars

\* C6: no step of a Load other than its successful end changes the roster or
\* lastUpdated, and the step in which the Load fails sets error and ends it.
C6_FailedLoadKeepsRoster ==
    [][\A p \in Procs :
          (StepOf(p)' /\ InLoad(procs[p]) /\ <<"loadSucceeded", p>> \notin event') =>
              /\ buses' = buses
              /\ lastUpdated' = lastUpdated
              /\ <<"loadFailed", p>> \in event' =>
                    /\ error' # Null
                    /\ ~InLoad(procs'[p])]_vars

\* a Load has just failed while the roster held data of an earlier Load
C6_Witness ==
    \E p \in Procs :
        /\ <<"loadFailed", p>> \in event
        /\ error # Null
        /\ ~isLoading
        /\ Len(buses) > 0
        /\ lastUpdated # NoDate

\* C7: when a Load or a Refresh ends successfully the error field is null.
C7_SuccessClearsError ==
    [][\A p \in Procs :
          (<<"loadSucceeded", p>> \in event' \/ <<"refreshSucceeded", p>> \in event')
          => error' = Null]_vars

\* the cooldown has run out since the last rejection
CooldownElapsed == nowMs - lastRateLimitTime > RATE_LIMIT_COOLDOWN_MS

\* C11: if from some point on the cooldown stays elapsed (no further rejection)
\* and successful calls keep occurring, the count ends at 0 and the recommended
\* interval at the base interval.
C11_ConvergesToBase ==
    <>[]CooldownElapsed =>
        <>[](/\ rateLimitHits = 0
             /\ getRecommendedPollInterval(rateLimitHits) = BASE_POLL_INTERVAL_MS)

\* the count is back at 0 after rejections, by successful calls alone
C11_Witness ==
    /\ rateLimitHits = 0
    /\ lastRateLimitTime >= StartMs
    /\ CooldownElapsed
    /\ getRecommendedPollInterval(rateLimitHits) = BASE_POLL_INTERVAL_MS

\* C12: a successful call after the cooldown, made while the recommended
\* interval is above base, makes the recommended interval strictly smaller.
C12_SuccessStrictlyDecreases ==
    [][(/\ CooldownElapsed
        /\ getRecommendedPollInterval(rateLimitHits) > BASE_POLL_INTERVAL_MS
        /\ rateLimitHits' = rateLimitHits - 1
        /\ UNCHANGED <<lastRateLimitTime, nowMs>>)
       => getRecommendedPollInterval(rateLimitHits')
              < getRecommendedPollInterval(rateLimitHits)]_vars

ActiveTimer(set, handle) == CHOOSE t \in set : t.handle = handle

C15_StopIsFinal ==
    [][/\ (pollEvent' = "stopped" /\ pollInterval = NoTimer) =>
            UNCHANGED <<timers, pollInterval, currentSpreadsheetId, ticks>>
       /\ pollEvent' = "stopped" =>
            timers' = {} /\ pollInterval' = NoTimer /\ currentSpreadsheetId' = Null
       /\ (pollEvent' = "completed" /\ pollInterval = NoTimer) =>
            timers' = {} /\ pollInterval' = NoTimer
       /\ Cardinality(timers') <= 1
       /\ pollInterval' = NoTimer => timers' = {}]_vars

\* polling has been stopped and the Refresh of an earlier tick has completed,
\* with a recommended interval that differs from the one it was set up with
C15_Witness ==
    /\ pollEvent = "completed"
    /\ pollInterval = NoTimer
    /\ timers = {}
    /\ rateLimitHits > 0

\* C18: a call that completes rate-limited adds 1 to the count and restarts the
\* cooldown, and a call that completes successfully is counted as a success,
\* whichever function has issued it.
C18_EveryCallReports ==
    [][(lastCall'.fn # "none" /\ nowMs' = nowMs) =>
          /\ lastCall'.status = 429 =>
                rateLimitHits' = rateLimitHits + 1 /\ lastRateLimitTime' = nowMs
          /\ lastCall'.status = 200 =>
                rateLimitHits' = HitsAfter(200)]_vars

\* C16: once today's table is in the existence cache it stays there, and no
\* operation enters the body of ensureDailySheet (its first request, or the wait
\* for a running one) any more.
C16_CachedSkipsRequests ==
    [][sheetExistsCache =>
          /\ sheetExistsCache'
          /\ \A p \in Procs :
                procs'[p].pc \in {"ens:info", "ens:join"} => procs'[p].pc = procs[p].pc]_vars

\* a handler has called updateBusStatus with the table cached: ensureDailySheet
\* has returned at once and the handler waits for the first request after it
C16_Witness ==
    \E p \in Procs :
        /\ sheetExistsCache
        /\ <<"handlerStarted", p>> \in event
        /\ <<"dispatched", p>> \in event
        /\ procs[p].pc \in {"upd:row", "gbs:rows"}

\* the awaited status read of p has returned rows
GotStatus(pr) ==
    /\ pr.pc \in {"gbs:rows", "gbs:join"}
    /\ pr.pc = "gbs:join" => pr.resp.ok

NothingLeftOver(id) ==
    /\ sheetExistsKeys \subseteq {id}
    /\ rowIndexKeys \subseteq {id}
    /\ hitSheets \subseteq {id}
    /\ config \in {<<>>, TrackerConfig(id)}

\* C19: a Load, a Refresh or a StartPolling for a tracker starts with no cache
\* key, no throttle count and no stored configuration of another tracker.
C19_ClearedOnTrackerChange ==
    [][\A id \in Trackers :
          sessionEvent' \in {<<"load", id>>, <<"refresh", id>>, <<"startPolling", id>>}
             => NothingLeftOver(id)]_vars

\* the role may act on buses: monitor or admin
MonitorCapable(mode) == mode \in {"monitor", "admin"}

C22_CanMarkArrived ==
    evaluated # NotEvaluated =>
        (evaluated.actions.canMarkArrived <=>
            /\ MonitorCapable(evaluated.mode)
            /\ evaluated.bus.derivedStatus = "pending"
            /\ evaluated.bus.covered_by = ""
            /\ ~evaluated.bus.is_uncovered)

\* C23: canMarkDeparted is granted exactly to a monitor-capable role on an
\* arrived bus.
C23_CanMarkDeparted ==
    evaluated # NotEvaluated =>
        (evaluated.actions.canMarkDeparted <=>
            MonitorCapable(evaluated.mode) /\ evaluated.bus.derivedStatus = "arrived")

\* C24: canMarkCovered is granted exactly to a monitor-capable role on a pending
\* bus.
C24_CanMarkCovered ==
    evaluated # NotEvaluated =>
        (evaluated.actions.canMarkCovered <=>
            MonitorCapable(evaluated.mode) /\ evaluated.bus.derivedStatus = "pending")

\* C25: canEdit is granted to monitor and admin for every bus; teacher is
\* granted none of the five permissions.
C25_EditRights ==
    evaluated # NotEvaluated =>
        /\ MonitorCapable(evaluated.mode) => evaluated.actions.canEdit
        /\ evaluated.mode = "teacher" =>
              /\ ~evaluated.actions.canMarkArrived
              /\ ~evaluated.actions.canMarkDeparted
              /\ ~evaluated.actions.canMarkCovered
              /\ ~evaluated.actions.canMarkUncovered
              /\ ~evaluated.actions.canEdit

\* the permissions of a teacher on a pending bus, where a monitor has buttons
C25_Witness ==
    /\ evaluated # NotEvaluated
    /\ evaluated.mode = "teacher"
    /\ evaluated.bus.derivedStatus = "pending"
    /\ evaluated.bus.covered_by = ""
    /\ ~evaluated.actions.canEdit

\* a handler p started from the edit form with the no-show box ticked
EditsUncovered(pr) ==
    /\ pr.kind = "action"
    /\ "is_uncovered" \in DOMAIN pr.local
    /\ pr.local.is_uncovered

Covers(pr) ==
    /\ pr.kind = "action"
    /\ "covered_by" \in DOMAIN pr.local
    /\ "is_uncovered" \notin DOMAIN pr.local

\* C27: when the optimistic update of markCovered is applied, the roster entry
\* of the bus has the covering number as it was submitted, an arrival time,
\* derived status arrived and section arrived, whether or not the number is a
\* configured bus; the row the update writes has that number and an arrival
\* time.
C27_CoveredBecomesArrived ==
    [][\A p \in Procs :
          Covers(procs'[p]) =>
             /\ (\/ <<"handlerStarted", p>> \in event' /\ procs'[p].optimistic = "applied"
                 \/ <<"transitionApplied", p>> \in event') =>
                   \E i \in DOMAIN buses' :
                      /\ buses'[i].bus_number = procs'[p].bus
                      /\ buses'[i].covered_by = procs'[p].local.covered_by
                      /\ buses'[i].covered_by # ""
                      /\ buses'[i].arrival_time # NoTime
                      /\ buses'[i].derivedStatus = "arrived"
                      /\ buses'[i].section = "arrived"
             /\ (procs[p].pc = "upd:row" /\ procs'[p].pc = "upd:put") =>
                   /\ procs'[p].payload.covered_by = procs'[p].local.covered_by
                   /\ procs'[p].payload.arrival_time # NoTime]_vars

\* a pending bus has just been marked covered by a number that is not configured
C27_Witness ==
    \E p \in Procs :
        /\ Covers(procs[p])
        /\ <<"handlerStarted", p>> \in event
        /\ procs[p].optimistic = "applied"
        /\ procs[p].local.covered_by = "B42"
        /\ \A i \in DOMAIN config : config[i] # "B42"
        /\ Len(buses) > 0
        /\ buses[1].covered_by = "B42"
        /\ buses[1].derivedStatus = "arrived"

\* C28: the merge has one entry per row of the configuration, in its order; the
\* entry has the fields of the first status row with its number, or empty
\* fields and derived status pending when there is none; a status row with a
\* number that is not configured has no entry.
C28_MergeFollowsConfig ==
    merged # NotMerged =>
        LET cfg == merged.config
            st == merged.status
            roster == merged.roster
        IN  /\ Len(roster) = Len(cfg)
            /\ \A i \in 1..Len(cfg) :
                  /\ roster[i].bus_number = cfg[i]
                  /\ IF \E j \in 1..Len(st) : st[j].bus_number = cfg[i]
                     THEN \E j \in 1..Len(st) :
                             /\ st[j].bus_number = cfg[i]
                             /\ \A k \in 1..(j - 1) : st[k].bus_number # cfg[i]
                             /\ roster[i].covered_by = st[j].covered_by
                             /\ roster[i].is_uncovered = st[j].is_uncovered
                             /\ roster[i].arrival_time = st[j].arrival_time
                             /\ roster[i].departure_time = st[j].departure_time
                             /\ roster[i].derivedStatus = deriveBusStatus(st[j])
                     ELSE /\ roster[i].covered_by = ""
                          /\ ~roster[i].is_uncovered
                          /\ roster[i].arrival_time = NoTime
                          /\ roster[i].departure_time = NoTime
                          /\ roster[i].derivedStatus = "pending"
            /\ \A j \in 1..Len(st) :
                  (\A i \in 1..Len(cfg) : cfg[i] # st[j].bus_number) =>
                     \A i \in 1..Len(roster) : roster[i].bus_number # st[j].bus_number

\* a configured bus without a status row next to a status row without a
\* configured bus
C28_Witness ==
    /\ merged # NotMerged
    /\ Len(merged.config) = 2
    /\ merged.config[1] # merged.config[2]
    /\ \E i \in 1..2 : \A j \in 1..Len(merged.status) :
          merged.status[j].bus_number # merged.config[i]
    /\ \E j \in 1..Len(merged.status) : \A i \in 1..2 :
          merged.status[j].bus_number # merged.config[i]
    /\ Len(merged.roster) = 2
    /\ \E i \in 1..2 : merged.roster[i].derivedStatus = "pending"

\* the value of a bus number read as a number
BusValue(b) == CASE b = "2" -> 2 [] b = "17" -> 17 [] b = "42" -> 42

\* how often a roster entry occurs in a list of the view
Occurrences(list, bus) ==
    Cardinality({i \in 1..Len(list) :
                    /\ list[i].bus_number = bus.bus_number
                    /\ list[i].covered_by = bus.covered_by
                    /\ list[i].is_uncovered = bus.is_uncovered
                    /\ list[i].arrival_time = bus.arrival_time
                    /\ list[i].departure_time = bus.departure_time
                    /\ list[i].derivedStatus = bus.derivedStatus
                    /\ list[i].section = bus.section})

\* the list is in the order of the bus numbers read as numbers
ByNumber(list) ==
    \A i, j \in 1..Len(list) :
        i < j => BusValue(list[i].bus_number) <= BusValue(list[j].bus_number)

OverridesOf(c) == c.early_dismissal_overrides.map

\* C30: getBusConfig right after saveBusConfig returns the list that was saved:
\* the same buses in the same order, each with the same bus_number,
\* expected_arrival_time and overrides.
C30_ConfigRoundTrip ==
    configEvent.op = "get" =>
        /\ Len(configEvent.got) = Len(configEvent.saved)
        /\ \A i \in 1..Len(configEvent.saved) :
              i <= Len(configEvent.got) =>
                 /\ configEvent.got[i].bus_number = configEvent.saved[i].bus_number
                 /\ configEvent.got[i].expected_arrival_time
                       = configEvent.saved[i].expected_arrival_time
                 /\ OverridesOf(configEvent.got[i]) = OverridesOf(configEvent.saved[i])

(***************************************************************************)
(* C40: at any time at most one underlying operation is in flight per      *)
(* dedup key, also when clearAllCaches runs while an operation is in       *)
(* flight: the completion of an operation started before the clear does    *)
(* not release the key of an operation started after it.                   *)
(***************************************************************************)
C40_OneInFlightPerKey ==
    \A k \in DedupKeys : Cardinality(InFlight(k)) <= 1

(***************************************************************************)
(* C31: updateBusLocally is idempotent.  Applying the same partial fields  *)
(* to the same bus twice gives the roster that applying them once gives;   *)
(* the entry of the bus then holds the given fields with status and        *)
(* section derived from them; no other bus changes, and nothing changes    *)
(* when the bus number is not in the roster.                               *)
(***************************************************************************)
C31_UpdateLocallyIdempotent ==
    localRun # NotRun =>
        LET roster == localRun.roster
            once == localRun.once
        IN  /\ localRun.twice = once
            /\ Len(once) = Len(roster)
            /\ \A i \in 1..Len(roster) :
                  IF roster[i].bus_number = localRun.bus
                  THEN /\ \A f \in DOMAIN localRun.updates :
                             once[i][f] = localRun.updates[f]
                       /\ \A f \in {"covered_by", "is_uncovered", "arrival_time",
                                  "departure_time"} \ DOMAIN localRun.updates :
                             once[i][f] = roster[i][f]
                       /\ once[i].bus_number = roster[i].bus_number
                       /\ once[i].derivedStatus = deriveBusStatus(once[i])
                       /\ once[i].section = deriveBusSection(once[i].derivedStatus)
                  ELSE once[i] = roster[i]
            /\ (\A i \in 1..Len(roster) : roster[i].bus_number # localRun.bus)
                  => once = roster

\* a bus of a roster of two buses moved from pending to arrived by the update
C31_Witness ==
    /\ localRun # NotRun
    /\ Len(localRun.roster) = 2
    /\ \E i, j \in 1..2 :
          /\ localRun.roster[i].bus_number = localRun.bus
          /\ localRun.roster[j].bus_number # localRun.bus
          /\ localRun.roster[i].derivedStatus = "pending"
          /\ localRun.once[i].derivedStatus = "arrived"
          /\ localRun.twice[i].derivedStatus = "arrived"

(***************************************************************************)
(* C38: after resetBusState the coordinator is back in its initial state   *)
(* (empty roster and configuration, isLoading false, error null,           *)
(* lastUpdated null, no poll timer, empty caches, rate-limit count 0) and  *)
(* stays there until a new Load is started: an operation dispatched before *)
(* the reset that completes after it repopulates nothing.  The session is  *)
(* signed out from the reset until the sign-in that starts the next Load.  *)
(***************************************************************************)
C38_ResetIsFinal ==
    ~user =>
        /\ buses = <<>>
        /\ config = <<>>
        /\ ~isLoading
        /\ error = Null
        /\ lastUpdated = NoDate
        /\ currentSpreadsheetId = Null
        /\ sheetExistsKeys = {}
        /\ rowIndexKeys = {}
        /\ rateLimitHits = 0

(***************************************************************************)
(* C32: in every reachable state of the coordinator every roster entry has *)
(* derivedStatus = deriveBusStatus of its own covered_by, is_uncovered,    *)
(* arrival_time and departure_time, and section = deriveBusSection of that *)
(* status: the derived fields are never stale.                             *)
(***************************************************************************)
C32_DerivedNeverStale ==
    \A i \in DOMAIN buses :
        /\ buses[i].derivedStatus = deriveBusStatus(buses[i])
        /\ buses[i].section = deriveBusSection(buses[i].derivedStatus)

\* an optimistic update has moved a bus out of pending while its write is
\* still on the way
C32_Witness ==
    \E p \in Procs, i \in DOMAIN buses :
        /\ procs[p].kind = "action"
        /\ procs[p].pc \in UpdPcs
        /\ procs[p].optimistic = "applied"
        /\ buses[i].bus_number = procs[p].bus
        /\ buses[i].derivedStatus # "pending"

\* the day's table has its header and a row for every configured bus
TablePopulated ==
    /\ remoteSheet
    /\ remoteHeader
    /\ \A i \in DOMAIN ConfiguredBuses : FindBus(remoteRows, ConfiguredBuses[i]) # 0

(***************************************************************************)
(* C33: the day's table is in the existence cache only when it is          *)
(* confirmed to exist and to be populated, with a row for every configured *)
(* bus, on the Load path through the batched read as on the path through   *)
(* ensureDailySheet: a table that exists but lacks rows is repaired before *)
(* it is cached.                                                           *)
(***************************************************************************)
C33_CachedOnlyWhenPopulated == sheetExistsCache => TablePopulated

(***************************************************************************)
(* C35: a successful updateBusStatus changes only the fields named in its  *)
(* partial update: the row it writes differs from the row it replaces in   *)
(* those fields alone, so that of two overlapping updates of the same bus  *)
(* (Arrived directly followed by Departed) both changes are in the row     *)
(* once both writes have succeeded.                                        *)
(***************************************************************************)
C35_WriteChangesOnlyItsFields ==
    [][\A p \in Procs :
          (/\ procs[p].pc = "upd:put"
           /\ procs[p].req = "sent"
           /\ procs'[p].req = "served"
           /\ procs[p].rowIndex + 1 <= Len(remoteRows))
          => LET before == parseStatusRow(remoteRows[procs[p].rowIndex + 1])
                 after == parseStatusRow(remoteRows'[procs[p].rowIndex + 1])
             IN  \A f \in {"bus_number", "covered_by", "is_uncovered", "arrival_time",
                           "departure_time"} \ DOMAIN procs[p].updates :
                    after[f] = before[f]]_vars

(***************************************************************************)
(* C37: isLoading is true exactly while at least one Load is in flight: it *)
(* is set when a Load starts, stays true until the last Load in flight has *)
(* completed, also when two Loads overlap, and is false whenever no Load   *)
(* is in flight.                                                           *)
(***************************************************************************)
C37_LoadingWhileLoadInFlight ==
    isLoading <=> \E p \in Procs : InLoad(procs[p])

(***************************************************************************)
(* C39: polling is owned by the mounted view.  While no view is mounted no *)
(* poll timer is set, also when a view was destroyed while its onMount     *)
(* awaited the initial Load or its handleAuthorize awaited the token: the  *)
(* continuation does not start polling after the destroy.                  *)
(***************************************************************************)
C39_NoTimerWithoutView ==
    (\A v \in ViewIds : ~views[v].alive) => (timers = {} /\ pollInterval = NoTimer)

(***************************************************************************)
(* C34: the row index hint has no authority over correctness.  The row an  *)
(* updateBusStatus for bus B replaces is a row of bus B, also when the     *)
(* hint is stale because the rows of the table were rewritten by another   *)
(* session's repair after the last full read: the update of B is never     *)
(* applied to the row of another bus.                                      *)
(***************************************************************************)
C34_UpdateHitsOwnRow ==
    lastWrite # NoWrite => lastWrite.replaced = lastWrite.bus

StatusFieldNames == {"covered_by", "is_uncovered", "arrival_time", "departure_time"}

\* the roster holds every configured bus that has a row in the day's table,
\* with the status fields of that row
Converged ==
    \A c \in DOMAIN ConfiguredBuses :
        LET j == FindBus(remoteRows, ConfiguredBuses[c])
            i == FindBus(buses, ConfiguredBuses[c])
        IN  j # 0 =>
              /\ i # 0
              /\ \A f \in StatusFieldNames :
                    buses[i][f] = parseStatusRow(remoteRows[j])[f]

\* the same for the buses the roster holds, whichever they are
RosterAgrees ==
    \A i \in DOMAIN buses :
        LET j == FindBus(remoteRows, buses[i].bus_number)
        IN  j # 0 =>
               \A f \in StatusFieldNames :
                   buses[i][f] = parseStatusRow(remoteRows[j])[f]

\* a step in which no request fails and nothing is changed by a handler, a view
\* transition or a write to the store
QuietStep ==
    /\ \A p \in Procs :
          /\ <<"failed", p>> \notin event'
          /\ <<"handlerStarted", p>> \notin event'
          /\ <<"transitionApplied", p>> \notin event'
    /\ UNCHANGED remoteVars

(***************************************************************************)
(* C36: local state never stays diverged from the remote store.  If from   *)
(* some point on remote reads succeed and no mutation is made locally or   *)
(* remotely, then from some point on, while polling is active, the roster  *)
(* holds the status fields of the remote row of every configured bus,      *)
(* whatever optimistic updates, writes, reloads and stale Refreshes came   *)
(* before.                                                                 *)
(***************************************************************************)
C36_EventuallyConverged ==
    <>[][QuietStep]_vars => <>[](polling => Converged)

\* what does hold: the entries the roster has end up equal to their rows
RosterEntriesConverge ==
    <>[][QuietStep]_vars => <>[](polling => RosterAgrees)

====
